---- MODULE Spec2Model ----
(***************************************************************************)
(* The snapshot event emitter of go-event: an authoritative mapping        *)
(* (evtm) guarded by a write lock, a published copy-on-write snapshot      *)
(* (evtv) read by Emit/EmitAsync, a sequence counter (eidx), and the       *)
(* once-listener wrapper.  Two source variants of the emitter are kept:    *)
(*   "impl"   : src/impl.go            On(event, listenerName, listener)   *)
(*   "common" : src/unnamed/part_001   On(event, listener), NewCommon      *)
(***************************************************************************)
EXTENDS Integers, Sequences, FiniteSets, TLC

\* ---------------------------------------------------------------- bounds
\* The largest value the sequence counter eidx takes (number of accepted
\* On/Once calls in one behaviour).
MaxIdx == 3
\* The largest number of listeners an EmitAsync call may resolve (number of
\* goroutines of one call).
MaxTasks == 2
\* The same bound as MaxIdx, for the specification with two callers.
MaxRaceIdx == 2
\* The same bound, for the specification of asynchronous emission under
\* fair scheduling.
MaxAsyncIdx == 2
\* The same bound, for the specification with callbacks that call the
\* emitter.
MaxNestIdx == 2
\* The same bound, for the specification of the emitter with or without a
\* matcher.
MaxCommonIdx == 2
\* The longest pattern and the longest emitted name given to the matcher.
MaxLen == 3
\* The largest number of listeners handed to one call of package events.
MaxArgs == 2
\* The largest number of onceListener objects made in one behaviour.
MaxOnce == 2
\* The longest Listeners slice that RemoveListener is applied to on its own.
MaxSlice == 7
\* SpecObjects: the bound on eidx.
MaxObjIdx == 3

\* ---------------------------------------------------------------- inputs
Threads == {"t1", "t2"}
Events == {"e1", "e2"}
Names == {"ln1", "ln2"}
Empty == ""
\* The listener name of the specifications with more than one process; with
\* the empty name of a custom Listener it gives lists of two listeners.
CommonNames == {"ln1"}

\* pr[p].pub, while p is inside On or Off, is what the call found and does:
\* "insert" / "replace" (On), "empty" / "update" / "none" (the store of Off).
\* The calling threads are <<t, 0>>; the goroutine that EmitAsync of thread t
\* spawns for the i-th resolved listener is <<t, i>>.
\* The calls that a running callback makes on the emitter are run by the
\* caller Frame, while the process in that callback waits for them.
P(t) == <<t, 0>>
Frame == "cb"
Callers == Threads \cup {Frame}
Tasks == Callers \X (1..MaxTasks)
Procs == {P(t) : t \in Callers} \cup Tasks
IsTask(p) == p[2] > 0
NoProc == <<"", 0>>

VARIABLES
  impl,        \* which source variant the emitter is: "impl" or "common"
  cap,         \* the bound on eidx of the specification (never changes)
  matchEvent,  \* emitter.matchEvent: "nil" (exact match) or "ref"
  evtm,        \* emitter.evtm: event -> (listener name -> indexListener)
  evtv,        \* emitter.evtv: the published eventManager
  eidx,        \* emitter.eidx
  lock,        \* emitter.lock: the process holding the write lock, or NoProc
  emitted,     \* the onceListener objects (by Index) whose emitted flag is 1
  onceRan,     \* history: Index -> times the wrapped callback of that
               \* once-listener was entered
  pr,          \* per process: position and locals of the running call
  matchCall,   \* a call of the reference matcher: its arguments and result
  evtListeners, \* package events, emitter.evtListeners: event -> Listeners
  maxListeners, \* package events, emitter.maxListeners
  rwlock,      \* package events, emitter.lock: the processes holding the read
               \* lock, and those inside Lock()
  wrappers,    \* package events: the onceListener objects made so far, each
               \* with the state of the goroutine it starts to remove itself
  arrays,      \* memory: the backing arrays of the slices in use (<<>>: a
               \* free one)
  evtp,        \* memory: eventManager.events of evtv, event -> backing array
  ref          \* memory: per process, the slice its call ranges over or
               \* was returned (0: none)

\* The emitter of package events.
legacy == <<evtListeners, maxListeners, rwlock, wrappers>>

\* The objects behind the values of evtv and of the locals of the calls.
memory == <<arrays, evtp, ref>>

vars ==
  <<impl, cap, matchEvent, evtm, evtv, eidx, lock, emitted, onceRan, pr, matchCall,
    legacy, memory>>

\* ------------------------------------------------------------ Go maps
EmptyMap == <<>>
MapPut(m, k, v) == [x \in (DOMAIN m) \cup {k} |-> IF x = k THEN v ELSE m[x]]
MapDel(m, k) == [x \in (DOMAIN m) \ {k} |-> m[x]]
Has(m, k) == k \in DOMAIN m
Values(m) == {m[k] : k \in DOMAIN m}

\* ------------------------------------------------------------ records
\* indexListener / namedListener: Index, the name it is keyed by, whether
\* the Listener is a *onceListener, and whether the innermost listener is a
\* callable ("fn") or nil.
NoListener == [Index |-> 0, name |-> Empty, once |-> FALSE, cb |-> "fn"]

IdleRec ==
  [pc |-> "idle", op |-> "", event |-> Empty, name |-> Empty,
   il |-> NoListener, lns |-> <<>>, i |-> 0, fired |-> <<>>,
   ret |-> "", pub |-> "", wg |-> 0, log |-> ""]

\* eventManager{} and, in impl.go, the nil map stored by storeEvents(nil)
EmptyManager == [matchEvent |-> "nil", events |-> EmptyMap]

\* ------------------------------------------------------------ sorting
\* indexListeners.Less
LessWrong(a, b) == a.Index > b.Index
Less(a, b) == a.Index < b.Index

\* sort.Stable(lns): insertion of each element behind the last element that
\* is not greater than it.
RECURSIVE InsertStable(_, _)
InsertStable(s, x) ==
  IF s = <<>> THEN <<x>>
  ELSE IF Less(x, s[Len(s)]) THEN Append(InsertStable(SubSeq(s, 1, Len(s) - 1), x), s[Len(s)])
  ELSE Append(s, x)

RECURSIVE SortStable(_)
SortStable(s) ==
  IF s = <<>> THEN <<>>
  ELSE InsertStable(SortStable(SubSeq(s, 1, Len(s) - 1)), s[Len(s)])

\* The orders in which `for _, listener := range listeners` may visit a map.
RangeOrders(m) ==
  {s \in [1..Cardinality(DOMAIN m) -> Values(m)] :
     \A i, j \in DOMAIN s : i # j => s[i] # s[j]}

\* One range order per event of the authoritative mapping.
IterOrders(m) ==
  {f \in [DOMAIN m -> UNION {RangeOrders(m[e]) : e \in DOMAIN m}] :
     \A e \in DOMAIN m : f[e] \in RangeOrders(m[e])}

\* emitter.updateEvents: the eventManager built from evtm, iter[e] being the
\* order in which the listeners of e were appended before the sort.
updateEventsKeepMatch(m, me, iter) ==
  [matchEvent |-> evtv.matchEvent, events |-> [e \in DOMAIN m |-> SortStable(iter[e])]]
updateEventsStale(m, me, iter) == evtv
updateEvents(m, me, iter) ==
  [matchEvent |-> me, events |-> [e \in DOMAIN m |-> SortStable(iter[e])]]

\* ------------------------------------------------------------ reads
\* eventManager.Events
EventsOf(ev) == DOMAIN ev.events
\* eventManager.Listeners
ListenersOf(ev, e) == IF Has(ev.events, e) THEN ev.events[e] ELSE <<>>
\* emitter.Events / emitter.Listeners on the published snapshot
CurEvents == EventsOf(evtv)
Listeners(e) == ListenersOf(evtv, e)

SeqNames(s) == {s[i].name : i \in DOMAIN s}
SeqIdx(s) == {s[i].Index : i \in DOMAIN s}

\* eventManager.Emit / EmitAsync, exact-match branch: the listeners resolved
\* for the emitted event.
ResolveLive(ev, e) ==
  IF Has(evtm, e) THEN SortStable(CHOOSE s \in RangeOrders(evtm[e]) : TRUE)
  ELSE <<>>
Resolve(ev, e) == ListenersOf(ev, e)


\* ------------------------------------------------------------ matcher
\* The characters of event names and patterns, and the strings of at most n
\* of them.
Alphabet == {"*", ".", "a"}

RECURSIVE Strings(_)
Strings(n) ==
  IF n = 0 THEN {""}
  ELSE Strings(n - 1) \cup {s \o c : s \in Strings(n - 1), c \in Alphabet}

\* strings.HasPrefix, strings.HasSuffix
HasPrefix(s, prefix) ==
  Len(s) >= Len(prefix) /\ SubSeq(s, 1, Len(prefix)) = prefix
HasSuffix(s, suffix) ==
  Len(s) >= Len(suffix) /\ SubSeq(s, Len(s) - Len(suffix) + 1, Len(s)) = suffix

\* The reference matcher, the matchEvent given to NewCommon.
MatchEventWhole(matchedEvent, emittedEvent) ==
  IF matchedEvent = "*" THEN TRUE
  ELSE IF HasPrefix(matchedEvent, "*") /\ HasSuffix(emittedEvent, matchedEvent)
  THEN TRUE
  ELSE IF HasSuffix(matchedEvent, "*") /\ HasPrefix(emittedEvent, matchedEvent)
  THEN TRUE
  ELSE matchedEvent = emittedEvent
MatchEvent(matchedEvent, emittedEvent) ==
  IF matchedEvent = "*" THEN TRUE
  ELSE IF /\ HasPrefix(matchedEvent, "*")
          /\ HasSuffix(emittedEvent, SubSeq(matchedEvent, 2, Len(matchedEvent)))
  THEN TRUE
  ELSE IF /\ HasSuffix(matchedEvent, "*")
          /\ HasPrefix(emittedEvent, SubSeq(matchedEvent, 1, Len(matchedEvent) - 1))
  THEN TRUE
  ELSE matchedEvent = emittedEvent

NoCall == [matchedEvent |-> "", emittedEvent |-> "", ret |-> "none"]

\* The orders in which `for matchedEvent, listeners := range m.events` may
\* visit the events in K.
KeyOrders(K) ==
  {s \in [1..Cardinality(K) -> K] : \A i, j \in DOMAIN s : i # j => s[i] # s[j]}

\* The listeners of the events o[1], o[2], ... one list after the other.
RECURSIVE Flatten(_, _)
Flatten(ev, o) ==
  IF o = <<>> THEN <<>> ELSE ev.events[Head(o)] \o Flatten(ev, Tail(o))

\* eventManager.Emit / EmitAsync: the lists of listeners the call may run
\* through.  Without a matcher that is the list of the emitted event; with
\* one, the lists of the matching events in the order the map is ranged.
ResolvedExact(ev, e) == {Resolve(ev, e)}
Resolved(ev, e) ==
  IF ev.matchEvent = "nil" THEN {Resolve(ev, e)}
  ELSE {Flatten(ev, o) : o \in KeyOrders({k \in DOMAIN ev.events : MatchEvent(k, e)})}

\* ------------------------------------------------------------ inputs of On
\* A call On/Once passes an event and a listener.  In impl.go the listener
\* name is a separate argument (ctor "arg"; cb "nil" is a nil listener).  In
\* part_001 the name is listener.Name(): the listener is nil (ctor "nil"),
\* built by NewListener(name, cb), or a value of another type implementing
\* the Listener interface (ctor "custom"), whose Name() is any string.
Inputs(v, Es, Ns) ==
  IF v = "impl"
  THEN [event : Es \cup {Empty}, name : Ns \cup {Empty},
        cb : {"fn", "nil"}, ctor : {"arg"}]
  ELSE [event : Es \cup {Empty}, name : Ns \cup {Empty},
        cb : {"fn", "nil"}, ctor : {"NewListener"}]
       \cup [event : Es \cup {Empty}, name : Ns \cup {Empty},
             cb : {"fn"}, ctor : {"custom"}]
       \cup [event : Es \cup {Empty}, name : {Empty},
             cb : {"nil"}, ctor : {"nil"}]

\* NewListener: panics on an empty name or a nil callback.
NewListener(name, cb) ==
  IF name = Empty THEN "panic"
  ELSE IF cb = "nil" THEN "panic"
  ELSE "ok"

ListenerIsNil(in) == in.ctor \in {"arg", "nil"} /\ in.cb = "nil"

\* emitter.On of impl.go up to the increment of eidx.  isNil: the Listener
\* interface value handed to On is nil.
OnChecksImpl(event, listenerName, isNil) ==
  IF event = Empty THEN "panic"
  ELSE IF listenerName = Empty THEN "panic"
  ELSE IF isNil THEN "panic"
  ELSE "ok"

\* emitter.On of part_001 up to the increment of eidx.  nameOfNil: the value
\* is a *onceListener whose embedded Listener is nil, so listener.Name()
\* dereferences nil.
OnChecksCommon(event, isNil, nameOfNil) ==
  IF event = Empty THEN "panic"
  ELSE IF isNil THEN "panic"
  ELSE IF nameOfNil THEN "panic"
  ELSE "ok"

\* The outcome of the part of On(event, ...) / Once(event, ...) that runs
\* before eidx is incremented.  Once hands On the wrapper made by
\* newOnceListener, which is never nil.
Precheck(v, once, in) ==
  IF v = "impl"
  THEN OnChecksImpl(in.event, in.name, (~once) /\ ListenerIsNil(in))
  ELSE IF in.ctor = "NewListener" /\ NewListener(in.name, in.cb) = "panic"
       THEN "panic"
       ELSE OnChecksCommon(in.event, (~once) /\ ListenerIsNil(in),
                           once /\ ListenerIsNil(in))

Done(op, event, name, ret) ==
  [IdleRec EXCEPT !.pc = "done", !.op = op, !.event = event, !.name = name,
                  !.ret = ret]

\* What no operation of the emitter changes.
fixed == <<impl, cap, matchEvent, matchCall, legacy>>

\* The same and the objects in memory, which the steps that neither load
\* nor store a snapshot leave alone.
config == <<fixed, memory>>

\* ------------------------------------------------------------ On / Once
\* On up to and including atomic.AddUint64(&e.eidx, 1).
Register(t, once, in) ==
  /\ pr[P(t)].pc = "idle"
  /\ IF Precheck(impl, once, in) = "panic"
     THEN /\ pr' = [pr EXCEPT ![P(t)] =
                      Done(IF once THEN "Once" ELSE "On", Empty, Empty, "panic")]
          /\ UNCHANGED eidx
     ELSE /\ eidx < cap
          /\ eidx' = eidx + 1
          /\ pr' = [pr EXCEPT ![P(t)] =
                      [IdleRec EXCEPT !.pc = "on_lock",
                                      !.op = IF once THEN "Once" ELSE "On",
                                      !.event = in.event, !.name = in.name,
                                      !.il = [Index |-> eidx + 1, name |-> in.name,
                                              once |-> once, cb |-> in.cb]]]
  /\ UNCHANGED <<config, evtm, evtv, lock, emitted, onceRan>>

On(t, in) == Register(t, FALSE, in)

Once(t, in) == Register(t, TRUE, in)

\* On: e.lock.Lock() and the insertion into evtm.
OnInsertByIndex(m, event, il) ==
  IF ~Has(m, event)
  THEN MapPut(m, event, MapPut(EmptyMap, ToString(il.Index), il))
  ELSE MapPut(m, event, MapPut(m[event], ToString(il.Index), il))
OnInsertKeepIndex(m, event, il) ==
  IF ~Has(m, event)
  THEN MapPut(m, event, MapPut(EmptyMap, il.name, il))
  ELSE IF Has(m[event], il.name)
  THEN MapPut(m, event,
              MapPut(m[event], il.name, [il EXCEPT !.Index = m[event][il.name].Index]))
  ELSE MapPut(m, event, MapPut(m[event], il.name, il))
OnInsert(m, event, il) ==
  IF ~Has(m, event)
  THEN MapPut(m, event, MapPut(EmptyMap, il.name, il))
  ELSE MapPut(m, event, MapPut(m[event], il.name, il))

OnLock(t) ==
  /\ pr[P(t)].pc = "on_lock"
  /\ lock = NoProc
  /\ lock' = P(t)
  /\ evtm' = OnInsert(evtm, pr[P(t)].event, pr[P(t)].il)
  /\ pr' = [pr EXCEPT ![P(t)].pc = "on_pub",
                      ![P(t)].pub = IF Has(evtm, pr[P(t)].event)
                                       /\ Has(evtm[pr[P(t)].event], pr[P(t)].name)
                                    THEN "replace" ELSE "insert"]
  /\ UNCHANGED <<config, evtv, eidx, emitted, onceRan>>

\* On: e.updateEvents() and e.lock.Unlock().
OnPublish(t) ==
  /\ pr[P(t)].pc = "on_pub"
  /\ \E iter \in IterOrders(evtm) : evtv' = updateEvents(evtm, matchEvent, iter)
  /\ lock' = NoProc
  /\ pr' = [pr EXCEPT ![P(t)].pc = "done", ![P(t)].ret = "ok"]
  /\ UNCHANGED <<config, evtm, eidx, emitted, onceRan>>

\* ------------------------------------------------------------ Off
\* The body of Off between Lock and the store: the new evtm and what is
\* stored afterwards ("empty": storeEvents of the empty manager, "update":
\* updateEvents, "none": nothing).
OffMutateEvent(m, event, listenerName) ==
  IF event = Empty
  THEN [evtm |-> EmptyMap, pub |-> "empty"]
  ELSE IF Has(m, event)
  THEN [evtm |-> MapDel(m, event), pub |-> "update"]
  ELSE [evtm |-> m, pub |-> "none"]
OffMutateNoPrune(m, event, listenerName) ==
  IF event = Empty
  THEN [evtm |-> EmptyMap, pub |-> "empty"]
  ELSE IF listenerName = Empty
  THEN IF Has(m, event)
       THEN [evtm |-> MapDel(m, event), pub |-> "update"]
       ELSE [evtm |-> m, pub |-> "none"]
  ELSE IF Has(m, event) /\ Has(m[event], listenerName)
  THEN [evtm |-> MapPut(m, event, MapDel(m[event], listenerName)),
        pub |-> "update"]
  ELSE [evtm |-> m, pub |-> "none"]
OffMutateNamed(m, event, listenerName) ==
  IF event = Empty /\ listenerName = Empty
  THEN [evtm |-> EmptyMap, pub |-> "empty"]
  ELSE IF event = Empty
  THEN [evtm |-> [e \in {x \in DOMAIN m : DOMAIN m[x] # {listenerName}} |->
                    MapDel(m[e], listenerName)],
        pub |-> "update"]
  ELSE IF listenerName = Empty
  THEN IF Has(m, event)
       THEN [evtm |-> MapDel(m, event), pub |-> "update"]
       ELSE [evtm |-> m, pub |-> "none"]
  ELSE IF Has(m, event) /\ Has(m[event], listenerName)
  THEN IF DOMAIN m[event] = {listenerName}
       THEN [evtm |-> MapDel(m, event), pub |-> "update"]
       ELSE [evtm |-> MapPut(m, event, MapDel(m[event], listenerName)),
             pub |-> "update"]
  ELSE [evtm |-> m, pub |-> "none"]
OffMutateKeep(m, event, listenerName) ==
  IF event = Empty
  THEN [evtm |-> m, pub |-> "empty"]
  ELSE IF listenerName = Empty
  THEN IF Has(m, event)
       THEN [evtm |-> MapDel(m, event), pub |-> "update"]
       ELSE [evtm |-> m, pub |-> "none"]
  ELSE IF Has(m, event) /\ Has(m[event], listenerName)
  THEN IF DOMAIN m[event] = {listenerName}
       THEN [evtm |-> MapDel(m, event), pub |-> "update"]
       ELSE [evtm |-> MapPut(m, event, MapDel(m[event], listenerName)),
             pub |-> "update"]
  ELSE [evtm |-> m, pub |-> "none"]
OffMutate(m, event, listenerName) ==
  IF event = Empty
  THEN [evtm |-> EmptyMap, pub |-> "empty"]
  ELSE IF listenerName = Empty
  THEN IF Has(m, event)
       THEN [evtm |-> MapDel(m, event), pub |-> "update"]
       ELSE [evtm |-> m, pub |-> "none"]
  ELSE IF Has(m, event) /\ Has(m[event], listenerName)
  THEN IF DOMAIN m[event] = {listenerName}
       THEN [evtm |-> MapDel(m, event), pub |-> "update"]
       ELSE [evtm |-> MapPut(m, event, MapDel(m[event], listenerName)),
             pub |-> "update"]
  ELSE [evtm |-> m, pub |-> "none"]

\* The store that ends Off.
OffStoreNone(pub) == UNCHANGED evtv
OffStoreEmpty(pub) ==
  IF pub = "none" THEN UNCHANGED evtv ELSE evtv' = EmptyManager
OffStore(pub) ==
  IF pub = "empty" THEN evtv' = EmptyManager
  ELSE IF pub = "update"
  THEN \E iter \in IterOrders(evtm) : evtv' = updateEvents(evtm, matchEvent, iter)
  ELSE UNCHANGED evtv

\* Off: e.lock.Lock() and the removal from evtm.
Off(t, event, listenerName) ==
  /\ pr[P(t)].pc = "idle"
  /\ lock = NoProc
  /\ lock' = P(t)
  /\ evtm' = OffMutate(evtm, event, listenerName).evtm
  /\ pr' = [pr EXCEPT ![P(t)] =
              [IdleRec EXCEPT !.pc = "off_pub", !.op = "Off", !.event = event,
                              !.name = listenerName,
                              !.pub = OffMutate(evtm, event, listenerName).pub]]
  /\ UNCHANGED <<config, evtv, eidx, emitted, onceRan>>

\* Off: the store of the new snapshot and e.lock.Unlock().
OffPublish(t) ==
  /\ pr[P(t)].pc = "off_pub"
  /\ OffStore(pr[P(t)].pub)
  /\ lock' = NoProc
  /\ pr' = [pr EXCEPT ![P(t)].pc = "done", ![P(t)].ret = "ok"]
  /\ UNCHANGED <<config, evtm, eidx, emitted, onceRan>>


\* ------------------------------------------------------------ Emit
\* The listener whose Callback process p is in, or is about to enter.
Cur(p) == pr[p].lns[pr[p].i]

\* Where process p goes when the Callback of its current listener has
\* returned: a calling thread goes on with the next listener of the range
\* loop or returns from Emit; a goroutine runs its deferred asyncDone.
AdvanceReload(p) ==
  IF IsTask(p) THEN [pr[p] EXCEPT !.pc = "exit", !.ret = "ok"]
  ELSE IF pr[p].i < Len(Resolve(evtv, pr[p].event))
  THEN [pr[p] EXCEPT !.pc = "call", !.i = @ + 1, !.lns = Resolve(evtv, pr[p].event)]
  ELSE [pr[p] EXCEPT !.pc = "done", !.ret = "ok", !.lns = Resolve(evtv, pr[p].event)]
AdvanceSkip(p) ==
  IF IsTask(p) THEN [pr[p] EXCEPT !.pc = "exit", !.ret = "ok"]
  ELSE IF pr[p].i + 1 < Len(pr[p].lns) THEN [pr[p] EXCEPT !.pc = "call", !.i = @ + 2]
  ELSE [pr[p] EXCEPT !.pc = "done", !.ret = "ok"]
Advance(p) ==
  IF IsTask(p) THEN [pr[p] EXCEPT !.pc = "exit", !.ret = "ok"]
  ELSE IF pr[p].i < Len(pr[p].lns) THEN [pr[p] EXCEPT !.pc = "call", !.i = @ + 1]
  ELSE [pr[p] EXCEPT !.pc = "done", !.ret = "ok"]

\* Where process p goes when the Callback of its current listener panics:
\* the panic unwinds Emit, or is met by the deferred asyncDone.
UnwindNoDefer(p) ==
  IF IsTask(p) THEN [pr[p] EXCEPT !.pc = "dead", !.ret = "panic"]
  ELSE [pr[p] EXCEPT !.pc = "done", !.ret = "panic"]
UnwindRecover(p) ==
  IF IsTask(p) THEN [pr[p] EXCEPT !.pc = "exit", !.ret = "panic"]
  ELSE Advance(p)
Unwind(p) ==
  IF IsTask(p) THEN [pr[p] EXCEPT !.pc = "exit", !.ret = "panic"]
  ELSE [pr[p] EXCEPT !.pc = "done", !.ret = "panic"]

\* emitter.Emit: loadEvents and the start of the range loop.
Emit(t, event) ==
  /\ pr[P(t)].pc = "idle"
  /\ \E lns \in Resolved(evtv, event) :
       pr' = [pr EXCEPT ![P(t)] =
                IF lns = <<>>
                THEN [IdleRec EXCEPT !.pc = "done", !.op = "Emit", !.event = event,
                                     !.ret = "ok"]
                ELSE [IdleRec EXCEPT !.pc = "call", !.op = "Emit", !.event = event,
                                     !.lns = lns, !.i = 1]]
  /\ UNCHANGED <<config, evtm, evtv, eidx, lock, emitted, onceRan>>

\* atomic.CompareAndSwapInt32(&l.emitted, 0, 1) of the onceListener with
\* Index k: whether the swap is made.
CompareAndSwapAlways(flags, k) == TRUE
CompareAndSwap(flags, k) == k \notin flags

\* listener.Callback(event, data...) is entered.  A plain listener runs its
\* callback; a onceListener does its compare-and-swap and, if it loses,
\* returns at once.
Callback(p) ==
  /\ pr[p].pc = "call"
  /\ IF Cur(p).once
     THEN IF CompareAndSwap(emitted, Cur(p).Index)
          THEN /\ emitted' = emitted \cup {Cur(p).Index}
               /\ pr' = [pr EXCEPT ![p].pc = "once_off"]
          ELSE /\ pr' = [pr EXCEPT ![p] = Advance(p)]
               /\ UNCHANGED emitted
     ELSE /\ pr' = [pr EXCEPT ![p].pc = "body", ![p].fired = Append(@, Cur(p).Index)]
          /\ UNCHANGED emitted
  /\ UNCHANGED <<config, evtm, evtv, eidx, lock, onceRan>>

\* onceListener.Callback: l.emitter.Off(event, name), Lock and removal.
OnceOffDeferred(p) ==
  /\ pr[p].pc = "once_off"
  /\ lock = NoProc
  /\ lock' = p
  /\ pr' = [pr EXCEPT ![p].pc = "once_pub", ![p].pub = "none"]
  /\ UNCHANGED <<config, evtm, evtv, eidx, emitted, onceRan>>
OnceOff(p) ==
  /\ pr[p].pc = "once_off"
  /\ lock = NoProc
  /\ lock' = p
  /\ evtm' = OffMutate(evtm, pr[p].event, Cur(p).name).evtm
  /\ pr' = [pr EXCEPT ![p].pc = "once_pub",
                      ![p].pub = OffMutate(evtm, pr[p].event, Cur(p).name).pub]
  /\ UNCHANGED <<config, evtv, eidx, emitted, onceRan>>

\* onceListener.Callback: the end of that Off (store, Unlock) and the entry
\* into the wrapped callback.
OncePublishHold(p) ==
  /\ pr[p].pc = "once_pub"
  /\ OffStore(pr[p].pub)
  /\ onceRan' = [onceRan EXCEPT ![Cur(p).Index] = @ + 1]
  /\ pr' = [pr EXCEPT ![p].pc = "body", ![p].pub = "",
                      ![p].fired = Append(@, Cur(p).Index)]
  /\ UNCHANGED <<config, evtm, eidx, emitted, lock>>
OncePublish(p) ==
  /\ pr[p].pc = "once_pub"
  /\ OffStore(pr[p].pub)
  /\ lock' = NoProc
  /\ onceRan' = [onceRan EXCEPT ![Cur(p).Index] = @ + 1]
  /\ pr' = [pr EXCEPT ![p].pc = "body", ![p].pub = "",
                      ![p].fired = Append(@, Cur(p).Index)]
  /\ UNCHANGED <<config, evtm, eidx, emitted>>

\* The callback of the current listener returns.
CallbackReturn(p) ==
  /\ pr[p].pc = "body"
  /\ Cur(p).cb = "fn"
  /\ pr' = [pr EXCEPT ![p] = Advance(p)]
  /\ UNCHANGED <<config, evtm, evtv, eidx, lock, emitted, onceRan>>

\* The callback of the current listener panics (a nil listener wrapped by
\* Once always does, when it is called).
CallbackPanic(p) ==
  /\ pr[p].pc = "body"
  /\ pr' = [pr EXCEPT ![p] = Unwind(p)]
  /\ UNCHANGED <<config, evtm, evtv, eidx, lock, emitted, onceRan>>

\* ------------------------------------------------------------ nested calls
\* The running callback of process p calls the emitter: p waits (pc
\* "nested") until the calls that Frame makes for it have returned.
CallbackCall(p) ==
  /\ pr[p].pc = "body"
  /\ p[1] # Frame
  /\ pr[P(Frame)].pc = "idle"
  /\ \A q \in Procs : pr[q].pc # "nested"
  /\ pr' = [pr EXCEPT ![p].pc = "nested"]
  /\ UNCHANGED <<config, evtm, evtv, eidx, lock, emitted, onceRan>>

\* The callback of p goes on after the calls it made.
CallbackResume(p) ==
  /\ pr[p].pc = "nested"
  /\ pr[P(Frame)].pc = "idle"
  /\ pr' = [pr EXCEPT ![p].pc = "body"]
  /\ UNCHANGED <<config, evtm, evtv, eidx, lock, emitted, onceRan>>

\* ------------------------------------------------------------ EmitAsync
\* emitter.EmitAsync: loadEvents, wg.Add(len(listeners)) and one goroutine
\* per resolved listener.
EmitAsync(t, event) ==
  /\ pr[P(t)].pc = "idle"
  /\ \E lns \in Resolved(evtv, event) :
       /\ Len(lns) <= MaxTasks
       /\ pr' = [q \in Procs |->
                   IF q = P(t)
                   THEN [IdleRec EXCEPT !.pc = "handle", !.op = "EmitAsync",
                                        !.event = event, !.lns = lns, !.wg = Len(lns)]
                   ELSE IF q[1] = t /\ q[2] \in 1..Len(lns)
                   THEN [IdleRec EXCEPT !.pc = "call", !.op = "emitAsync",
                                        !.event = event, !.lns = <<lns[q[2]]>>, !.i = 1]
                   ELSE pr[q]]
  /\ UNCHANGED <<config, evtm, evtv, eidx, lock, emitted, onceRan>>

\* log.Printf("EventEmitter: listener '%s' panics on event '%s'", a, b): the
\* line that is logged.
Printf(a, b) == "EventEmitter: listener '" \o a \o "' panics on event '" \o b \o "'"

\* asyncDone(wg, evt, ln), deferred by emitAsync with the emitted event and
\* the name of the listener: wg.Done(), recover() and, if there was a panic,
\* log.Printf(..., evt, ln).  The goroutine ends; ret keeps how its callback
\* ended ("panic": the recovered panic), log what it logged.
AsyncDoneNoSignal(p) ==
  /\ IsTask(p)
  /\ pr[p].pc = "exit"
  /\ pr' = [pr EXCEPT ![p].pc = "dead",
                      ![p].log = IF pr[p].ret = "panic"
                                 THEN Printf(pr[p].event, Cur(p).name) ELSE "",
                      ![P(p[1])].wg = IF pr[p].ret = "panic" THEN @ ELSE @ - 1]
  /\ UNCHANGED <<config, evtm, evtv, eidx, lock, emitted, onceRan>>
AsyncDone(p) ==
  /\ IsTask(p)
  /\ pr[p].pc = "exit"
  /\ pr' = [pr EXCEPT ![p].pc = "dead",
                      ![p].log = IF pr[p].ret = "panic"
                                 THEN Printf(pr[p].event, Cur(p).name) ELSE "",
                      ![P(p[1])].wg = @ - 1]
  /\ UNCHANGED <<config, evtm, evtv, eidx, lock, emitted, onceRan>>

\* Result.Wait on the handle EmitAsync returned: returns when the counter of
\* the WaitGroup is zero.
WaitEarly(t) ==
  /\ pr[P(t)].pc = "handle"
  /\ pr' = [pr EXCEPT ![P(t)].pc = "done", ![P(t)].op = "Wait", ![P(t)].ret = "ok"]
  /\ UNCHANGED <<config, evtm, evtv, eidx, lock, emitted, onceRan>>
Wait(t) ==
  /\ pr[P(t)].pc = "handle"
  /\ pr[P(t)].wg = 0
  /\ pr' = [pr EXCEPT ![P(t)].pc = "done", ![P(t)].op = "Wait", ![P(t)].ret = "ok"]
  /\ UNCHANGED <<config, evtm, evtv, eidx, lock, emitted, onceRan>>

\* The caller takes the outcome of its call (a return or a panic) and is
\* ready for its next call.
Return(t) ==
  /\ pr[P(t)].pc = "done"
  /\ pr' = [q \in Procs |-> IF q[1] = t THEN IdleRec ELSE pr[q]]
  /\ UNCHANGED <<config, evtm, evtv, eidx, lock, emitted, onceRan>>

\* ------------------------------------------------------------ package events
\* New() of package events.
DefaultMaxListeners == 0

NewLegacy ==
  /\ evtListeners = EmptyMap
  /\ maxListeners = DefaultMaxListeners
  /\ rwlock = [readers |-> {}, waiting |-> {}]
  /\ wrappers = <<>>


\* A Listeners slice holds listeners registered directly (once = 0),
\* *onceListener wrappers (once = k, the k-th wrapper made) and, inside
\* RemoveListener, nil holes.
Nil == [listener |-> "nil", once |-> 0]
Direct(l) == [listener |-> l, once |-> 0]
Wrapper(l, k) == [listener |-> l, once |-> k]

LegacyEvents == {"e1", "e2"}
LegacyListeners == {"l1"}
\* The variadic listener arguments of a call: at most MaxArgs listeners.
ArgSeqs(L) == UNION {[1..n -> L] : n \in 0..MaxArgs}

\* e.evtListeners[evt]: nil (no element) for an event that is not a key.
ListenersAt(m, evt) == IF Has(m, evt) THEN m[evt] ELSE <<>>
\* emitter.IsListened, emitter.ListenerCount, emitter.Events
IsListened(evt) == Has(evtListeners, evt)
ListenerCount(evt) == Len(ListenersAt(evtListeners, evt))
LegacyEventsOf == DOMAIN evtListeners

\* Listeners.Less, Listeners.Swap
ListenersLess(ls, i, j) == ls[j] = Nil
ListenersSwap(ls, i, j) == [ls EXCEPT ![i] = ls[j], ![j] = ls[i]]

\* sort.Sort(listeners) for a slice of at most 12 elements.  Every version
\* of the sort package ends with insertionSort: for i, and j from i down
\* while Less(j, j-1), Swap(j, j-1).  Up to Go 1.18 (quickSort) a pass
\* `if Less(i, i-6) { Swap(i, i-6) }` over i >= 6 comes first.
RECURSIVE insertionInner(_, _)
insertionInner(ls, j) ==
  IF j > 1 /\ ListenersLess(ls, j, j - 1)
  THEN insertionInner(ListenersSwap(ls, j, j - 1), j - 1)
  ELSE ls

RECURSIVE insertionSort(_, _)
insertionSort(ls, i) ==
  IF i > Len(ls) THEN ls ELSE insertionSort(insertionInner(ls, i), i + 1)

RECURSIVE shellPass(_, _)
shellPass(ls, i) ==
  IF i > Len(ls) THEN ls
  ELSE shellPass(IF ListenersLess(ls, i, i - 6) THEN ListenersSwap(ls, i, i - 6) ELSE ls,
                 i + 1)

\* What sort.Sort may leave, depending on the Go release the program is
\* built with.
SortOutcomes(ls) == {insertionSort(ls, 2), insertionSort(shellPass(ls, 7), 2)}

\* emitter.containListener
containListener(listeners, l) ==
  \E i \in DOMAIN listeners :
    \/ listeners[i] = l
    \/ listeners[i].once > 0 /\ l.once = 0 /\ listeners[i].listener = l.listener

\* AddListener: the loop that appends the listeners not yet contained.
RECURSIVE appendNew(_, _)
appendNew(listeners, ls) ==
  IF ls = <<>> THEN listeners
  ELSE appendNew(IF containListener(listeners, Head(ls)) THEN listeners
                 ELSE Append(listeners, Head(ls)),
                 Tail(ls))

\* AddListener under the lock: the new evtListeners.
addListener(m, max, evt, ls) ==
  IF max > 0 /\ Len(ListenersAt(m, evt)) + Len(ls) > max THEN m
  ELSE MapPut(m, evt, appendNew(ListenersAt(m, evt), ls))

\* emitter.removeListener: the slice with nil in the place of the listener
\* and of every wrapper of it.
removeListener(listeners, l) ==
  [i \in DOMAIN listeners |->
     IF listeners[i] # Nil /\ listeners[i].listener = l THEN Nil ELSE listeners[i]]

RECURSIVE removeEach(_, _)
removeEach(listeners, ls) ==
  IF ls = <<>> THEN listeners
  ELSE removeEach(removeListener(listeners, Head(ls)), Tail(ls))

Holes(listeners) == Cardinality({i \in DOMAIN listeners : listeners[i] = Nil})

\* RemoveListener under the lock: the slices that may be stored for evt.
removeListeners(listeners, ls) ==
  IF Holes(removeEach(listeners, ls)) > 0
  THEN {SubSeq(s, 1, Len(s) - Holes(removeEach(listeners, ls))) :
          s \in SortOutcomes(removeEach(listeners, ls))}
  ELSE {listeners}

\* What no operation of package events changes.
snapshot ==
  <<impl, cap, matchEvent, matchCall, evtm, evtv, eidx, lock, emitted, onceRan,
    memory>>

\* e.lock.Lock() is called: new readers wait from now on.
LockCalled(p, op, evt, ls, n) ==
  /\ pr' = [pr EXCEPT ![p] = [IdleRec EXCEPT !.pc = "w_lock", !.op = op, !.event = evt,
                                             !.lns = ls, !.i = n]]
  /\ rwlock' = [rwlock EXCEPT !.waiting = @ \cup {p}]

\* e.lock.Lock() returns, the critical section runs and e.lock.Unlock().
Locked(p, op) ==
  /\ pr[p].pc = "w_lock"
  /\ pr[p].op = op
  /\ rwlock.readers = {}
  /\ rwlock' = [rwlock EXCEPT !.waiting = @ \ {p}]
  /\ pr' = [pr EXCEPT ![p].pc = "done", ![p].ret = "ok"]

\* emitter.AddListener / On
AddListener(t, evt, ls) ==
  /\ pr[P(t)].pc = "idle"
  /\ IF ls = <<>>
     THEN /\ pr' = [pr EXCEPT ![P(t)] = Done("AddListener", evt, Empty, "ok")]
          /\ UNCHANGED rwlock
     ELSE LockCalled(P(t), "AddListener", evt, [j \in DOMAIN ls |-> Direct(ls[j])], 0)
  /\ UNCHANGED <<snapshot, evtListeners, maxListeners, wrappers>>

\* emitter.Once: one new onceListener for each listener, then AddListener.
LegacyOnce(t, evt, ls) ==
  /\ pr[P(t)].pc = "idle"
  /\ Len(wrappers) + Len(ls) <= MaxOnce
  /\ IF ls = <<>>
     THEN /\ pr' = [pr EXCEPT ![P(t)] = Done("Once", evt, Empty, "ok")]
          /\ UNCHANGED <<rwlock, wrappers>>
     ELSE /\ wrappers' = wrappers \o
                [j \in DOMAIN ls |-> [evtname |-> evt, listener |-> ls[j],
                                      emitted |-> 0, ran |-> 0, rm |-> "none"]]
          /\ LockCalled(P(t), "AddListener", evt,
                        [j \in DOMAIN ls |-> Wrapper(ls[j], Len(wrappers) + j)], 0)
  /\ UNCHANGED <<snapshot, evtListeners, maxListeners>>

AddListenerLocked(t) ==
  /\ Locked(P(t), "AddListener")
  /\ evtListeners' = addListener(evtListeners, maxListeners, pr[P(t)].event, pr[P(t)].lns)
  /\ UNCHANGED <<snapshot, maxListeners, wrappers>>

\* emitter.RemoveListener / Off: without listeners it is RemoveAllListeners.
RemoveListener(t, evt, ls) ==
  /\ pr[P(t)].pc = "idle"
  /\ LockCalled(P(t), IF ls = <<>> THEN "RemoveAllListeners" ELSE "RemoveListener",
                evt, ls, 0)
  /\ UNCHANGED <<snapshot, evtListeners, maxListeners, wrappers>>

RemoveListenerLocked(t) ==
  /\ Locked(P(t), "RemoveListener")
  /\ \E s \in removeListeners(ListenersAt(evtListeners, pr[P(t)].event), pr[P(t)].lns) :
       evtListeners' = MapPut(evtListeners, pr[P(t)].event, s)
  /\ UNCHANGED <<snapshot, maxListeners, wrappers>>

\* emitter.RemoveAllListeners
RemoveAllListeners(t) ==
  /\ Locked(P(t), "RemoveAllListeners")
  /\ evtListeners' = MapDel(evtListeners, pr[P(t)].event)
  /\ UNCHANGED <<snapshot, maxListeners, wrappers>>

\* emitter.Clear
Clear(t) ==
  /\ pr[P(t)].pc = "idle"
  /\ LockCalled(P(t), "Clear", Empty, <<>>, 0)
  /\ UNCHANGED <<snapshot, evtListeners, maxListeners, wrappers>>

ClearLocked(t) ==
  /\ Locked(P(t), "Clear")
  /\ evtListeners' = EmptyMap
  /\ UNCHANGED <<snapshot, maxListeners, wrappers>>

\* emitter.SetMaxListeners
SetMaxListeners(t, n) ==
  /\ pr[P(t)].pc = "idle"
  /\ IF n < 0
     THEN /\ pr' = [pr EXCEPT ![P(t)] = Done("SetMaxListeners", Empty, Empty, "ok")]
          /\ UNCHANGED rwlock
     ELSE LockCalled(P(t), "SetMaxListeners", Empty, <<>>, n)
  /\ UNCHANGED <<snapshot, evtListeners, maxListeners, wrappers>>

SetMaxListenersLocked(t) ==
  /\ Locked(P(t), "SetMaxListeners")
  /\ maxListeners' = pr[P(t)].i
  /\ UNCHANGED <<snapshot, evtListeners, wrappers>>

\* e.lock.RLock() returns at once unless a process is inside Lock().
RLockFree == rwlock.waiting = {}

\* emitter.Emit: RLock, the deferred RUnlock and the start of the range loop
\* over e.evtListeners[evt].
LegacyEmit(t, evt) ==
  /\ pr[P(t)].pc = "idle"
  /\ RLockFree
  /\ IF ListenersAt(evtListeners, evt) = <<>>
     THEN /\ pr' = [pr EXCEPT ![P(t)] = Done("Emit", evt, Empty, "ok")]
          /\ UNCHANGED rwlock
     ELSE /\ pr' = [pr EXCEPT ![P(t)] =
                      [IdleRec EXCEPT !.pc = "call", !.op = "Emit", !.event = evt,
                                      !.lns = ListenersAt(evtListeners, evt), !.i = 1]]
          /\ rwlock' = [rwlock EXCEPT !.readers = @ \cup {P(t)}]
  /\ UNCHANGED <<snapshot, evtListeners, maxListeners, wrappers>>

\* emitter.EmitAsync: under the read lock, wg.Add(1) and one goroutine for
\* each listener of e.evtListeners[evt].
LegacyEmitAsync(t, evt) ==
  /\ pr[P(t)].pc = "idle"
  /\ RLockFree
  /\ Len(ListenersAt(evtListeners, evt)) <= MaxTasks
  /\ pr' = [q \in Procs |->
              IF q = P(t)
              THEN [IdleRec EXCEPT !.pc = "handle", !.op = "EmitAsync", !.event = evt,
                                   !.lns = ListenersAt(evtListeners, evt),
                                   !.wg = Len(ListenersAt(evtListeners, evt))]
              ELSE IF q[1] = t /\ q[2] \in 1..Len(ListenersAt(evtListeners, evt))
              THEN [IdleRec EXCEPT !.pc = "call", !.op = "emitAsync", !.event = evt,
                                   !.lns = <<ListenersAt(evtListeners, evt)[q[2]]>>,
                                   !.i = 1]
              ELSE pr[q]]
  /\ UNCHANGED <<snapshot, legacy>>

\* Where process p goes when the Callback of its current listener has
\* returned; the deferred RUnlock of Emit runs when the loop is over.
LegacyAdvance(p) ==
  IF IsTask(p)
  THEN /\ pr' = [pr EXCEPT ![p].pc = "exit", ![p].ret = "ok"]
       /\ UNCHANGED rwlock
  ELSE IF pr[p].i < Len(pr[p].lns)
  THEN /\ pr' = [pr EXCEPT ![p].pc = "call", ![p].i = @ + 1]
       /\ UNCHANGED rwlock
  ELSE /\ pr' = [pr EXCEPT ![p].pc = "done", ![p].ret = "ok"]
       /\ rwlock' = [rwlock EXCEPT !.readers = @ \ {p}]

\* listener.Callback(data...) is entered: a listener runs its callback, a
\* onceListener does its compare-and-swap and runs the callback of the
\* listener it wraps if it wins, and returns at once if it loses.
LegacyCallback(p) ==
  /\ pr[p].pc = "call"
  /\ IF Cur(p).once = 0
     THEN /\ pr' = [pr EXCEPT ![p].pc = "body", ![p].fired = Append(@, Cur(p))]
          /\ UNCHANGED <<wrappers, rwlock>>
     ELSE IF wrappers[Cur(p).once].emitted = 0
     THEN /\ wrappers' = [wrappers EXCEPT ![Cur(p).once].emitted = 1,
                                          ![Cur(p).once].ran = @ + 1]
          /\ pr' = [pr EXCEPT ![p].pc = "body", ![p].fired = Append(@, Cur(p))]
          /\ UNCHANGED rwlock
     ELSE /\ LegacyAdvance(p)
          /\ UNCHANGED wrappers
  /\ UNCHANGED <<snapshot, evtListeners, maxListeners>>

\* The callback returns; after the callback of the listener it wraps, a
\* onceListener starts the goroutine `go ol.emitter.RemoveListener(...)`.
LegacyCallbackReturn(p) ==
  /\ pr[p].pc = "body"
  /\ wrappers' = IF Cur(p).once > 0
                 THEN [wrappers EXCEPT ![Cur(p).once].rm = "go"]
                 ELSE wrappers
  /\ LegacyAdvance(p)
  /\ UNCHANGED <<snapshot, evtListeners, maxListeners>>

\* The callback panics inside Emit: the deferred RUnlock runs and the panic
\* reaches the caller of Emit.  (Nothing recovers a panic in a goroutine of
\* EmitAsync: the program ends.)
LegacyCallbackPanic(p) ==
  /\ pr[p].pc = "body"
  /\ ~IsTask(p)
  /\ pr' = [pr EXCEPT ![p].pc = "done", ![p].ret = "panic"]
  /\ rwlock' = [rwlock EXCEPT !.readers = @ \ {p}]
  /\ UNCHANGED <<snapshot, evtListeners, maxListeners, wrappers>>

\* emitAsync: the deferred wg.Done().
LegacyAsyncDone(p) ==
  /\ IsTask(p)
  /\ pr[p].pc = "exit"
  /\ pr' = [pr EXCEPT ![p].pc = "dead", ![P(p[1])].wg = @ - 1]
  /\ UNCHANGED <<snapshot, legacy>>

\* The goroutine started by the k-th onceListener: RemoveListener(evtname,
\* listener) calls Lock, and then runs under the lock.
Remover(k) == <<"once", k>>

RemoverLock(k) ==
  /\ k \in DOMAIN wrappers
  /\ wrappers[k].rm = "go"
  /\ wrappers' = [wrappers EXCEPT ![k].rm = "w_lock"]
  /\ rwlock' = [rwlock EXCEPT !.waiting = @ \cup {Remover(k)}]
  /\ UNCHANGED <<snapshot, pr, evtListeners, maxListeners>>

RemoverLocked(k) ==
  /\ k \in DOMAIN wrappers
  /\ wrappers[k].rm = "w_lock"
  /\ rwlock.readers = {}
  /\ rwlock' = [rwlock EXCEPT !.waiting = @ \ {Remover(k)}]
  /\ wrappers' = [wrappers EXCEPT ![k].rm = "dead"]
  /\ \E s \in removeListeners(ListenersAt(evtListeners, wrappers[k].evtname),
                              <<wrappers[k].listener>>) :
       evtListeners' = MapPut(evtListeners, wrappers[k].evtname, s)
  /\ UNCHANGED <<snapshot, pr, maxListeners>>

\* ------------------------------------------------------------ specification
\* New() / NewCommon(nil) of part_001 (v = "common"), New() of impl.go
\* (v = "impl").
NewEmitter(v, max) ==
  /\ impl = v
  /\ cap = max
  /\ evtm = EmptyMap
  /\ evtv = EmptyManager
  /\ eidx = 0
  /\ lock = NoProc
  /\ emitted = {}
  /\ onceRan = [k \in 1..max |-> 0]
  /\ pr = [p \in Procs |-> IdleRec]
  /\ arrays = <<>>
  /\ evtp = EmptyMap
  /\ ref = [p \in Procs |-> 0]

\* The emitter, and the emitter of package events as New() makes it.
InitEmitter(v, max) == NewLegacy /\ NewEmitter(v, max)

InitOf(v, max) ==
  /\ matchCall = NoCall
  /\ matchEvent = "nil"
  /\ InitEmitter(v, max)

\* The registry calls of thread t and their steps, over events Es and
\* listener names Ns.
Do(t, Es, Ns) ==
  \/ \E in \in Inputs(impl, Es, Ns) : On(t, in)
  \/ \E in \in Inputs(impl, Es, Ns) : Once(t, in)
  \/ OnLock(t)
  \/ OnPublish(t)
  \/ \E e \in Es \cup {Empty}, n \in Ns \cup {Empty} : Off(t, e, n)
  \/ OffPublish(t)
  \/ \E e \in Es : Emit(t, e)
  \/ Return(t)

\* The asynchronous emission of thread t.
DoAsync(t, Es) ==
  \/ \E e \in Es : EmitAsync(t, e)
  \/ Wait(t)

\* The steps of a listener call, in a thread's Emit or in a goroutine.
Run(p) ==
  \/ Callback(p)
  \/ OnceOff(p)
  \/ OncePublish(p)
  \/ CallbackReturn(p)
  \/ CallbackPanic(p)

\* One caller: every call returns before the next one is made.
Init == InitOf("common", MaxIdx)

Next == \E t \in {"t1"} : Do(t, Events, Names) \/ Run(P(t))

Spec == Init /\ [][Next]_vars

\* Two callers on one event, with asynchronous emission: t1 makes every
\* call, t2 emits.
RaceEvents == {"e1"}

InitRace == InitOf("common", MaxRaceIdx)

NextRace ==
  \/ Do("t1", RaceEvents, CommonNames) \/ DoAsync("t1", RaceEvents)
  \/ \E e \in RaceEvents : Emit("t2", e)
  \/ Return("t2")
  \/ \E p \in Procs : Run(p) \/ AsyncDone(p)

SpecRace == InitRace /\ [][NextRace]_vars

\* Fair scheduling: every process that can take a step of a listener call,
\* of asyncDone, of On past its checks, of the locked part of Off, or return
\* from Wait, eventually does.
Fairness ==
  /\ \A p \in Procs : WF_vars(Run(p)) /\ WF_vars(AsyncDone(p))
  /\ \A t \in Callers :
       /\ WF_vars(OnLock(t)) /\ WF_vars(OnPublish(t))
       /\ WF_vars(OffPublish(t)) /\ WF_vars(Wait(t))

\* One caller with asynchronous emission, under fair scheduling.
InitAsync == InitOf("common", MaxAsyncIdx)

NextAsync ==
  \/ Do("t1", RaceEvents, Names) \/ DoAsync("t1", RaceEvents)
  \/ \E p \in Tasks : Run(p) \/ AsyncDone(p)
  \/ Run(P("t1"))

SpecAsync == InitAsync /\ [][NextAsync]_vars /\ Fairness

\* One caller whose callbacks call the emitter again.
InitNested == InitOf("common", MaxNestIdx)

NextNested ==
  \/ Do("t1", RaceEvents, CommonNames) \/ DoAsync("t1", RaceEvents)
  \/ \E p \in Procs : p[1] = "t1" /\ (Run(p) \/ AsyncDone(p))
  \/ \E p \in Procs : CallbackCall(p) \/ CallbackResume(p)
  \/ /\ \E p \in Procs : pr[p].pc = "nested"
     /\ \/ Do(Frame, RaceEvents, CommonNames) \/ DoAsync(Frame, RaceEvents)
        \/ \E p \in Procs : p[1] = Frame /\ (Run(p) \/ AsyncDone(p))

SpecNested == InitNested /\ [][NextNested]_vars /\ Fairness

\* The reference matcher applied to a pattern and an emitted name.
InitMatch ==
  /\ matchEvent = "ref"
  /\ InitEmitter("common", 0)
  /\ matchCall \in [matchedEvent : Strings(MaxLen), emittedEvent : Strings(MaxLen),
                    ret : {"none"}]

NextMatch ==
  /\ matchCall.ret = "none"
  /\ matchCall' =
       [matchCall EXCEPT !.ret =
          IF MatchEvent(matchCall.matchedEvent, matchCall.emittedEvent)
          THEN "true" ELSE "false"]
  /\ UNCHANGED <<impl, cap, matchEvent, evtm, evtv, eidx, lock, emitted, onceRan, pr,
                 legacy, memory>>

SpecMatch == InitMatch /\ [][NextMatch]_vars

\* NewCommon(nil) or NewCommon(the reference matcher), one caller.  On and
\* Off are given patterns; Emit patterns and plain names, EmitAsync plain
\* names.
PatternEvents == {"a.*", "*.a"}
EmittedEvents == {"a.a", "a"}

InitCommon ==
  /\ matchCall = NoCall
  /\ matchEvent \in {"nil", "ref"}
  /\ InitEmitter("common", MaxCommonIdx)

NextCommon ==
  \/ Do("t1", PatternEvents, CommonNames) \/ DoAsync("t1", EmittedEvents)
  \/ \E e \in EmittedEvents : Emit("t1", e)
  \/ \E p \in Tasks : Run(p) \/ AsyncDone(p)
  \/ Run(P("t1"))

SpecCommon == InitCommon /\ [][NextCommon]_vars

\* ------------------------------------------------------------ package events
\* The calls of thread t on the emitter of package events, over events Es
\* and listeners Ls, and the end of their locked parts.
MaxListenersValues == {-1, 0, 2}

LegacyDo(t, Es, Ls) ==
  \/ \E evt \in Es, ls \in ArgSeqs(Ls) : AddListener(t, evt, ls)
  \/ \E evt \in Es, ls \in ArgSeqs(Ls) : LegacyOnce(t, evt, ls)
  \/ AddListenerLocked(t)
  \/ \E evt \in Es, ls \in ArgSeqs(Ls) : RemoveListener(t, evt, ls)
  \/ RemoveListenerLocked(t)
  \/ RemoveAllListeners(t)
  \/ Clear(t)
  \/ ClearLocked(t)
  \/ \E n \in MaxListenersValues : SetMaxListeners(t, n)
  \/ SetMaxListenersLocked(t)
  \/ \E evt \in Es : LegacyEmit(t, evt)
  \/ \E evt \in Es : LegacyEmitAsync(t, evt)
  \/ Wait(t)
  \/ Return(t)

\* The steps of a listener call of package events.
LegacyRun(p) ==
  \/ LegacyCallback(p)
  \/ LegacyCallbackReturn(p)
  \/ LegacyCallbackPanic(p)

\* Fair scheduling: every process that can take a step of a listener call,
\* end its goroutine, run the part of a call that waits for the lock, or
\* return from Wait, eventually does.
LegacyFairness ==
  /\ \A p \in Procs : WF_vars(LegacyRun(p)) /\ WF_vars(LegacyAsyncDone(p))
  /\ \A t \in Threads :
       /\ WF_vars(AddListenerLocked(t)) /\ WF_vars(RemoveListenerLocked(t))
       /\ WF_vars(RemoveAllListeners(t)) /\ WF_vars(ClearLocked(t))
       /\ WF_vars(SetMaxListenersLocked(t)) /\ WF_vars(Wait(t))
  /\ \A k \in 1..MaxOnce : WF_vars(RemoverLock(k)) /\ WF_vars(RemoverLocked(k))

\* One caller of every operation, the goroutines of EmitAsync and of the
\* onceListeners.
InitLegacy == InitOf("common", 0)

NextLegacy ==
  \/ LegacyDo("t1", LegacyEvents, LegacyListeners)
  \/ \E p \in Procs : LegacyRun(p) \/ LegacyAsyncDone(p)
  \/ \E k \in 1..MaxOnce : RemoverLock(k) \/ RemoverLocked(k)

SpecLegacy == InitLegacy /\ [][NextLegacy]_vars

\* Two callers of Emit on one event, one of them also of On, Once and
\* EmitAsync, under fair scheduling.
OnceEvents == {"e1"}

NextLegacyOnce ==
  \/ \E evt \in OnceEvents, ls \in ArgSeqs(LegacyListeners) : AddListener("t1", evt, ls)
  \/ \E evt \in OnceEvents, ls \in ArgSeqs(LegacyListeners) : LegacyOnce("t1", evt, ls)
  \/ AddListenerLocked("t1")
  \/ \E evt \in OnceEvents : LegacyEmitAsync("t1", evt)
  \/ Wait("t1")
  \/ \E t \in Threads, evt \in OnceEvents : LegacyEmit(t, evt)
  \/ \E t \in Threads : Return(t)
  \/ \E p \in Procs : LegacyRun(p) \/ LegacyAsyncDone(p)
  \/ \E k \in 1..MaxOnce : RemoverLock(k) \/ RemoverLocked(k)

SpecLegacyOnce == InitLegacy /\ [][NextLegacyOnce]_vars /\ LegacyFairness

\* RemoveListener applied to the slice of n listeners registered one after
\* the other by AddListener.
ListenerName(i) == "l" \o ToString(i)

\* The listeners with the numbers in S, as arguments of a call.
ArgsOf(S) ==
  [j \in 1..Cardinality(S) |->
     ListenerName(CHOOSE x \in S : Cardinality({y \in S : y < x}) = j - 1)]

InitSort ==
  /\ matchCall = NoCall
  /\ matchEvent = "nil"
  /\ NewEmitter("common", 0)
  /\ maxListeners = DefaultMaxListeners
  /\ rwlock = [readers |-> {}, waiting |-> {}]
  /\ wrappers = <<>>
  /\ \E n \in 1..MaxSlice :
       evtListeners = addListener(EmptyMap, DefaultMaxListeners, "e1",
                                  [i \in 1..n |-> Direct(ListenerName(i))])

NextSort ==
  \/ \E S \in SUBSET (1..MaxSlice) : RemoveListener("t1", "e1", ArgsOf(S))
  \/ RemoveListenerLocked("t1")
  \/ RemoveAllListeners("t1")

SpecSort == InitSort /\ [][NextSort]_vars

\* ------------------------------------------------------------ memory
\* The snapshot as objects: eventManager.events is a map from events to
\* slices, a slice is a view of a backing array, and a reader keeps the
\* slice it got, not a copy of its elements.  An array that nothing refers
\* to any more is freed, and a later make may be given it again.
Free == <<>>

FirstFree(as) ==
  IF \E a \in DOMAIN as : as[a] = Free
  THEN CHOOSE a \in DOMAIN as :
         as[a] = Free /\ \A b \in DOMAIN as : as[b] = Free => a <= b
  ELSE Len(as) + 1

\* make(indexListeners, 0, len(listeners)) of updateEvents: the backing
\* array of the new slice of n listeners.  as: the arrays in use; prev: the
\* array the published snapshot has for the event (0: none).
makeReuse(as, prev, n) ==
  IF prev # 0 /\ n <= Len(as[prev]) THEN prev ELSE FirstFree(as)
make(as, prev, n) == FirstFree(as)

\* The appends to, and the sort of, the slice on array a: the array then
\* holds c.
Fill(as, a, c) == IF a > Len(as) THEN Append(as, c) ELSE [as EXCEPT ![a] = c]

\* The arrays that the map events or a local of a running call refers to.
Live(events, refs) == (Values(events) \cup {refs[p] : p \in Procs}) \ {0}

RECURSIVE Trim(_)
Trim(as) ==
  IF as # <<>> /\ as[Len(as)] = Free THEN Trim(SubSeq(as, 1, Len(as) - 1)) ELSE as

\* The arrays after the garbage collector has freed all but the live ones.
collect(as, live) ==
  Trim([a \in DOMAIN as |-> IF a \in live THEN as[a] ELSE Free])

\* m.events[event]: the array of the slice, and its elements.
SliceOf(event) == IF Has(evtp, event) THEN evtp[event] ELSE 0
ElemsOf(a) == IF a = 0 THEN <<>> ELSE arrays[a]

\* The loop of updateEvents over the events es: for each event a slice is
\* made, filled with the sorted listeners and put into the new map.
RECURSIVE buildEvents(_, _, _, _, _)
buildEvents(as, events, prev, sorted, es) ==
  IF es = <<>> THEN [arrays |-> as, events |-> events]
  ELSE LET e == Head(es)
           a == make(as, IF Has(prev, e) THEN prev[e] ELSE 0, Len(sorted[e]))
       IN  buildEvents(Fill(as, a, sorted[e]), MapPut(events, e, a), prev, sorted,
                       Tail(es))

\* updateEvents and storeEvents: the objects made for the eventManager ev
\* and the store of the new map.
storeEvents(ev) ==
  LET b == buildEvents(arrays, EmptyMap, evtp, ev.events,
                       CHOOSE o \in KeyOrders(DOMAIN ev.events) : TRUE)
  IN  /\ evtp' = b.events
      /\ arrays' = collect(b.arrays, Live(b.events, ref))

\* The store that ends On and Off: updateEvents, storeEvents(eventManager{})
\* or nothing.
Publish(pub) ==
  IF pub = "empty"
  THEN /\ evtv' = EmptyManager
       /\ evtp' = EmptyMap
       /\ arrays' = collect(arrays, Live(EmptyMap, ref))
  ELSE IF pub = "update"
  THEN /\ \E iter \in IterOrders(evtm) : evtv' = updateEvents(evtm, matchEvent, iter)
       /\ storeEvents(evtv')
  ELSE UNCHANGED <<evtv, arrays, evtp>>

\* On: e.updateEvents() and e.lock.Unlock().
OnPublishObjects(t) ==
  /\ pr[P(t)].pc = "on_pub"
  /\ Publish("update")
  /\ lock' = NoProc
  /\ pr' = [pr EXCEPT ![P(t)].pc = "done", ![P(t)].ret = "ok"]
  /\ UNCHANGED <<fixed, ref, evtm, eidx, emitted, onceRan>>

\* Off: the store of the new snapshot and e.lock.Unlock().
OffPublishObjects(t) ==
  /\ pr[P(t)].pc = "off_pub"
  /\ Publish(pr[P(t)].pub)
  /\ lock' = NoProc
  /\ pr' = [pr EXCEPT ![P(t)].pc = "done", ![P(t)].ret = "ok"]
  /\ UNCHANGED <<fixed, ref, evtm, eidx, emitted, onceRan>>

\* emitter.Emit without a matcher: loadEvents and the start of the loop
\* `for _, listener := range m.events[event]`, which keeps the slice.
EmitRange(t, event) ==
  /\ pr[P(t)].pc = "idle"
  /\ ref' = [ref EXCEPT ![P(t)] = SliceOf(event)]
  /\ pr' = [pr EXCEPT ![P(t)] =
              IF ElemsOf(SliceOf(event)) = <<>>
              THEN [IdleRec EXCEPT !.pc = "done", !.op = "Emit", !.event = event,
                                   !.ret = "ok"]
              ELSE [IdleRec EXCEPT !.pc = "call", !.op = "Emit", !.event = event,
                                   !.lns = ElemsOf(SliceOf(event)), !.i = 1]]
  /\ UNCHANGED <<fixed, arrays, evtp, evtm, evtv, eidx, lock, emitted, onceRan>>

\* The loop reads element i of the slice and enters its Callback.
CallbackAt(p) ==
  /\ pr[p].pc = "call"
  /\ ref[p] # 0
  /\ pr' = [pr EXCEPT ![p].pc = "body",
                      ![p].fired = Append(@, arrays[ref[p]][pr[p].i].Index)]
  /\ UNCHANGED <<config, evtm, evtv, eidx, lock, emitted, onceRan>>

\* The Listener of an indexListener: the element without its Index.
ListenerOf(il) == [il EXCEPT !.Index = 0]

\* emitter.Listeners: loadEvents and eventManager.Listeners, which makes a
\* slice and appends the Listener of every element of m.events[event].
ListenersCall(t, event) ==
  /\ pr[P(t)].pc = "idle"
  /\ LET c == [i \in DOMAIN ElemsOf(SliceOf(event)) |->
                 ListenerOf(ElemsOf(SliceOf(event))[i])]
     IN  /\ arrays' = IF c = <<>> THEN arrays ELSE Fill(arrays, FirstFree(arrays), c)
         /\ ref' = [ref EXCEPT ![P(t)] = IF c = <<>> THEN 0 ELSE FirstFree(arrays)]
         /\ pr' = [pr EXCEPT ![P(t)] =
                     [Done("Listeners", event, Empty, "ok") EXCEPT !.lns = c]]
  /\ UNCHANGED <<fixed, evtp, evtm, evtv, eidx, lock, emitted, onceRan>>

\* The caller of Listeners assigns to element i of the slice it was given.
ListenersAssign(t, i) ==
  /\ pr[P(t)].pc = "done" /\ pr[P(t)].op = "Listeners"
  /\ ref[P(t)] # 0
  /\ i \in DOMAIN arrays[ref[P(t)]]
  /\ arrays[ref[P(t)]][i] # NoListener
  /\ arrays' = [arrays EXCEPT ![ref[P(t)]][i] = NoListener]
  /\ pr' = [pr EXCEPT ![P(t)].lns[i] = NoListener]
  /\ UNCHANGED <<fixed, evtp, ref, evtm, evtv, eidx, lock, emitted, onceRan>>

\* The caller takes the outcome of its call and drops the slice it held.
ReturnObjects(t) ==
  /\ pr[P(t)].pc = "done"
  /\ pr' = [pr EXCEPT ![P(t)] = IdleRec]
  /\ ref' = [ref EXCEPT ![P(t)] = 0]
  /\ arrays' = collect(arrays, Live(evtp, [ref EXCEPT ![P(t)] = 0]))
  /\ UNCHANGED <<fixed, evtp, evtm, evtv, eidx, lock, emitted, onceRan>>

\* One caller of On and Off, and a reader that emits and lists, on the
\* objects in memory.
InitObjects == InitOf("common", MaxObjIdx)

NextObjects ==
  \/ \E in \in Inputs(impl, RaceEvents, Names) : On("t1", in)
  \/ OnLock("t1")
  \/ OnPublishObjects("t1")
  \/ \E e \in RaceEvents \cup {Empty}, n \in Names \cup {Empty} : Off("t1", e, n)
  \/ OffPublishObjects("t1")
  \/ Return("t1")
  \/ \E e \in RaceEvents : EmitRange("t2", e)
  \/ CallbackAt(P("t2"))
  \/ CallbackReturn(P("t2"))
  \/ \E e \in RaceEvents : ListenersCall("t2", e)
  \/ \E i \in 1..MaxObjIdx : ListenersAssign("t2", i)
  \/ ReturnObjects("t2")

SpecObjects == InitObjects /\ [][NextObjects]_vars

\* Two callers that both register and remove, on one event.
NextMutators == \E t \in Threads : Do(t, RaceEvents, Names) \/ Run(P(t))

SpecMutators == InitRace /\ [][NextMutators]_vars

\* The emitter of impl.go, one caller.
InitImpl == InitOf("impl", MaxIdx)

SpecImpl == InitImpl /\ [][Next]_vars

\* ------------------------------------------------------------ properties
IdxSeq(s) == [j \in DOMAIN s |-> s[j].Index]
Ascending(s) == \A j, k \in DOMAIN s : j < k => s[j].Index < s[k].Index
\* The listeners registered for e in the mapping m, in registration order.
Registered(m, e) ==
  IF Has(m, e) THEN CHOOSE s \in RangeOrders(m[e]) : Ascending(s) ELSE <<>>

T1 == P("t1")

\* C1: a synchronous Emit(e) resolves exactly the listeners registered for e,
\* in ascending registration order, and runs them one after another: when
\* the callback of the i-th listener is running, the callbacks entered so far
\* are those of listeners 1..i in that order, and when Emit returns all of
\* them have been entered and have returned.
C1_Loaded ==
  \A e \in Events :
    Emit("t1", e) =>
      /\ pr'[T1].lns = Registered(evtm, e)
      /\ Ascending(pr'[T1].lns)

C1_InOrder ==
  pr[T1].op = "Emit" =>
    /\ pr[T1].pc \in {"call", "once_off", "once_pub"} =>
         pr[T1].fired = IdxSeq(SubSeq(pr[T1].lns, 1, pr[T1].i - 1))
    /\ pr[T1].pc = "body" =>
         pr[T1].fired = IdxSeq(SubSeq(pr[T1].lns, 1, pr[T1].i))
    /\ (pr[T1].pc = "done" /\ pr[T1].ret = "ok") =>
         pr[T1].fired = IdxSeq(pr[T1].lns)

\* C1: Emit(e) resolves the listeners registered for e in ascending
\* registration order (C1_Loaded, at the step that loads the snapshot) and
\* enters and leaves their callbacks one after another in that order
\* (C1_InOrder, in every state of the call).
C1_EmitSynchronousInOrder == [][C1_Loaded]_vars /\ []C1_InOrder

C1_Witness ==
  /\ pr[T1].op = "Emit" /\ pr[T1].pc = "done" /\ pr[T1].ret = "ok"
  /\ Len(pr[T1].lns) >= 2
  /\ pr[T1].fired = IdxSeq(pr[T1].lns)

\* C2: the wrapped callback of a once-listener is entered at most once,
\* whatever Emit and EmitAsync calls race for it.
C2_OnceAtMostOnce == \A k \in DOMAIN onceRan : onceRan[k] <= 1

\* Process p is past the once-listener with Index k without having entered
\* its wrapped callback: it lost the compare-and-swap.
LostSwap(p, k) ==
  \E j \in DOMAIN pr[p].lns :
    /\ pr[p].lns[j].Index = k
    /\ pr[p].lns[j].once
    /\ \A x \in DOMAIN pr[p].fired : pr[p].fired[x] # k
    /\ \/ pr[p].i > j
       \/ pr[p].pc \in {"done", "exit", "dead"}

C2_Witness ==
  \E k \in DOMAIN onceRan :
    /\ onceRan[k] = 1
    /\ \E p \in Procs : LostSwap(p, k)

\* C3: when an Emit(e) that fired the once-listener registered as (e, n) has
\* returned (or has been unwound by a panic), n is not among Listeners(e),
\* and e is not in Events() if n was the only listener Emit resolved for e.
C3_OnceDeregistered ==
  (pr[T1].op = "Emit" /\ pr[T1].pc = "done") =>
    \A j \in DOMAIN pr[T1].lns :
      (pr[T1].lns[j].once /\ pr[T1].lns[j].Index \in {pr[T1].fired[x] : x \in DOMAIN pr[T1].fired}) =>
        /\ pr[T1].lns[j].name \notin SeqNames(Listeners(pr[T1].event))
        /\ pr[T1].lns[j].Index \notin SeqIdx(Listeners(pr[T1].event))
        /\ Len(pr[T1].lns) = 1 => pr[T1].event \notin CurEvents

C3_Witness ==
  /\ pr[T1].op = "Emit" /\ pr[T1].pc = "done" /\ pr[T1].ret = "ok"
  /\ Len(pr[T1].lns) = 1 /\ pr[T1].lns[1].once
  /\ pr[T1].fired = <<pr[T1].lns[1].Index>>
  /\ pr[T1].event \notin CurEvents

\* C4: when On(e, n, cb2) publishes, Listeners(e) holds exactly one listener
\* named n and it is the one just registered (an earlier registration under
\* n is gone); no published list and no list an Emit resolved holds a name
\* twice, and every listener an Emit resolves is the latest registration of
\* its name.
C4_OnPublish ==
  \A t \in Threads :
    OnPublish(t) =>
      \A i \in DOMAIN ListenersOf(evtv', pr[P(t)].event) :
        ListenersOf(evtv', pr[P(t)].event)[i].name = pr[P(t)].name
          <=> ListenersOf(evtv', pr[P(t)].event)[i] = pr[P(t)].il

C4_OnPublishListed ==
  \A t \in Threads :
    OnPublish(t) =>
      \E i \in DOMAIN ListenersOf(evtv', pr[P(t)].event) :
        ListenersOf(evtv', pr[P(t)].event)[i] = pr[P(t)].il

C4_EmitLatest ==
  \A e \in Events :
    Emit("t1", e) =>
      \A i \in DOMAIN pr'[T1].lns :
        /\ Has(evtm, e) /\ Has(evtm[e], pr'[T1].lns[i].name)
        /\ evtm[e][pr'[T1].lns[i].name] = pr'[T1].lns[i]

C4_OneSlot ==
  /\ \A e \in CurEvents : Cardinality(SeqNames(Listeners(e))) = Len(Listeners(e))
  /\ Cardinality(SeqNames(pr[T1].lns)) = Len(pr[T1].lns)
  /\ Cardinality({pr[T1].fired[x] : x \in DOMAIN pr[T1].fired}) = Len(pr[T1].fired)

\* C4: registering (e, n) again keeps one slot for n, held by the latest
\* registration (C4_OnPublish, C4_OnPublishListed at the publishing step of
\* On; C4_EmitLatest at the loading step of Emit; C4_OneSlot in every state).
C4_SameNameOneSlot ==
  [][C4_OnPublish /\ C4_OnPublishListed /\ C4_EmitLatest]_vars /\ []C4_OneSlot

C4_Witness ==
  /\ pr[T1].op = "On" /\ pr[T1].pc = "done" /\ pr[T1].ret = "ok"
  /\ pr[T1].pub = "replace"
  /\ Listeners(pr[T1].event) = <<pr[T1].il>>

\* C5: every published listener list, and every list an Emit resolved, is
\* in strictly ascending order of sequence number.
C5_StrictlyAscending ==
  /\ \A e \in CurEvents : Ascending(Listeners(e))
  /\ \A p \in Procs : Ascending(pr[p].lns)

C5_Witness ==
  \E e \in CurEvents :
    /\ Len(Listeners(e)) >= 2
    /\ Listeners(e)[1].Index >= 2

\* C6: the store that ends Off(e, "") leaves e out of Events() and the
\* listener list of every other event as it was; the store that ends
\* Off("", "") leaves Events() empty and no event resolving any listener.
C6_OffPublish ==
  \A t \in Threads :
    (OffPublish(t) /\ pr[P(t)].name = Empty) =>
      IF pr[P(t)].event = Empty
      THEN /\ EventsOf(evtv') = {}
           /\ \A e \in Events : Resolve(evtv', e) = <<>>
      ELSE /\ pr[P(t)].event \notin EventsOf(evtv')
           /\ \A e \in Events \ {pr[P(t)].event} :
                /\ ListenersOf(evtv', e) = ListenersOf(evtv, e)
                /\ e \in EventsOf(evtv') <=> e \in EventsOf(evtv)

C6_Returned ==
  (pr[T1].op = "Off" /\ pr[T1].pc = "done" /\ pr[T1].name = Empty) =>
    IF pr[T1].event = Empty THEN CurEvents = {} /\ evtm = EmptyMap
    ELSE pr[T1].event \notin CurEvents /\ ~Has(evtm, pr[T1].event)

\* C6: Off(e, "") removes e and only e, Off("", "") removes every event
\* (C6_OffPublish at the publishing step, C6_Returned once Off has returned).
C6_OffEventAndOffAll == [][C6_OffPublish]_vars /\ []C6_Returned

C6_Witness ==
  /\ pr[T1].op = "Off" /\ pr[T1].pc = "done"
  /\ pr[T1].event = "e1" /\ pr[T1].name = Empty /\ pr[T1].pub = "update"
  /\ "e1" \notin CurEvents
  /\ Len(Listeners("e2")) >= 1

\* C7: the store that ends Off(e, n), e and n not empty, leaves the listener
\* list of e as it was without the listener named n, the others in the same
\* order, and the listener list of every other event as it was.
Without(s, n) == SelectSeq(s, LAMBDA x : x.name # n)

C7_OffPublish ==
  \A t \in Threads :
    (OffPublish(t) /\ pr[P(t)].name # Empty /\ pr[P(t)].event # Empty) =>
      /\ ListenersOf(evtv', pr[P(t)].event)
           = Without(ListenersOf(evtv, pr[P(t)].event), pr[P(t)].name)
      /\ \A e \in Events \ {pr[P(t)].event} :
           /\ ListenersOf(evtv', e) = ListenersOf(evtv, e)
           /\ e \in EventsOf(evtv') <=> e \in EventsOf(evtv)

\* C7: Off(e, n) removes the listener named n of e and nothing else
\* (C7_OffPublish at every publishing step of such an Off).
C7_OffRemovesOnlyThatListener == [][C7_OffPublish]_vars

C7_Witness ==
  /\ pr[T1].op = "Off" /\ pr[T1].pc = "done"
  /\ pr[T1].event # Empty /\ pr[T1].name # Empty /\ pr[T1].pub = "update"
  /\ Len(Listeners(pr[T1].event)) >= 1
  /\ \E e \in Events \ {pr[T1].event} : Len(Listeners(e)) >= 1

\* C8: no event is present with zero listeners, neither in the authoritative
\* mapping nor in the published snapshot.
C8_NoEmptyEntry ==
  /\ \A e \in DOMAIN evtm : DOMAIN evtm[e] # {}
  /\ \A e \in DOMAIN evtv.events : evtv.events[e] # <<>>

C8_Witness ==
  /\ pr[T1].op = "Off" /\ pr[T1].pc = "done"
  /\ pr[T1].event # Empty /\ pr[T1].name # Empty /\ pr[T1].pub = "update"
  /\ pr[T1].event \notin CurEvents
  /\ ~Has(evtm, pr[T1].event)

\* C9: a call of On or Once with an empty event name, an empty listener
\* name or a nil listener (or nil callback) panics and leaves evtm, the
\* published snapshot and eidx as they were.
BadInput(in) == in.event = Empty \/ in.name = Empty \/ in.cb = "nil"

C9_Step ==
  \A t \in Threads, once \in BOOLEAN, in \in Inputs(impl, Events, Names) :
    (Register(t, once, in) /\ BadInput(in)) =>
      /\ pr'[P(t)].pc = "done" /\ pr'[P(t)].ret = "panic"
      /\ UNCHANGED <<evtm, evtv, eidx>>

\* C9: every step that starts On or Once with an empty event name, an empty
\* listener name or a nil listener ends the call with a panic and leaves
\* evtm, evtv and eidx unchanged (C9_Step).
C9_PreconditionPanics == [][C9_Step]_vars

\* C10: a panic of a listener's callback during a synchronous Emit ends the
\* Emit call with that panic, no later listener of the resolved list is
\* entered, and the step changes nothing of the registry.
C10_Panic ==
  \A t \in Threads :
    CallbackPanic(P(t)) =>
      /\ pr'[P(t)].pc = "done" /\ pr'[P(t)].ret = "panic"
      /\ pr'[P(t)].fired = pr[P(t)].fired
      /\ UNCHANGED <<evtm, evtv, eidx, lock, emitted, onceRan>>

C10_Unwound ==
  (pr[T1].op = "Emit" /\ pr[T1].pc = "done" /\ pr[T1].ret = "panic") =>
    pr[T1].fired = IdxSeq(SubSeq(pr[T1].lns, 1, pr[T1].i))

\* C10: a callback's panic during a synchronous Emit ends the call with the
\* panic without touching the registry (C10_Panic), and the callbacks
\* entered by that call are those of the listeners up to the faulting one
\* (C10_Unwound).
C10_SyncPanicPropagates == [][C10_Panic]_vars /\ []C10_Unwound

C10_Witness ==
  /\ pr[T1].op = "Emit" /\ pr[T1].pc = "done" /\ pr[T1].ret = "panic"
  /\ pr[T1].i < Len(pr[T1].lns)
  /\ Len(pr[T1].fired) = pr[T1].i

\* ------------------------------------------------------------ EmitAsync
\* The goroutines of the EmitAsync call of thread t.
TasksOf(t) == {<<t, i>> : i \in 1..Len(pr[P(t)].lns)}
Waited(t) == pr[P(t)].op = "Wait" /\ pr[P(t)].pc = "done"

\* C11: a panic of a callback in a goroutine of EmitAsync ends that goroutine
\* only: the step changes no other process (C11_Panic); asyncDone then
\* signals the WaitGroup and changes nothing else of the caller
\* (C11_Done); while the caller holds the handle the counter is the number
\* of goroutines that have not signalled (C11_Signals); and Wait returns
\* normally with every goroutine ended and every plain listener's callback
\* entered (C11_Returned).
C11_Panic ==
  \A p \in Tasks :
    CallbackPanic(p) =>
      /\ pr'[p].pc = "exit" /\ pr'[p].ret = "panic"
      /\ \A q \in Procs \ {p} : pr'[q] = pr[q]
      /\ UNCHANGED <<evtm, evtv, eidx, lock, emitted, onceRan>>

C11_Done ==
  \A p \in Tasks :
    AsyncDone(p) =>
      /\ pr'[P(p[1])] = [pr[P(p[1])] EXCEPT !.wg = @ - 1]
      /\ pr'[p].ret = pr[p].ret
      /\ \A q \in Procs \ {p, P(p[1])} : pr'[q] = pr[q]

C11_Signals ==
  \A t \in Threads :
    pr[P(t)].pc = "handle" =>
      pr[P(t)].wg = Cardinality({p \in TasksOf(t) : pr[p].pc # "dead"})

C11_Returned ==
  \A t \in Threads :
    Waited(t) =>
      /\ pr[P(t)].ret = "ok"
      /\ \A p \in TasksOf(t) :
           /\ pr[p].pc = "dead"
           /\ ~pr[p].lns[1].once => pr[p].fired = <<pr[p].lns[1].Index>>

C11_AsyncPanicRecovered ==
  [][C11_Panic /\ C11_Done]_vars /\ [](C11_Signals /\ C11_Returned)

C11_Witness ==
  /\ Waited("t1") /\ pr[T1].ret = "ok"
  /\ \E p, q \in TasksOf("t1") :
       /\ pr[p].pc = "dead" /\ pr[p].ret = "panic"
       /\ pr[q].pc = "dead" /\ pr[q].ret = "ok"
       /\ pr[q].fired = <<pr[q].lns[1].Index>>

\* C12: Wait returns only when every goroutine of the EmitAsync call has
\* ended (C12_Wait); when it has returned, the call has run one goroutine
\* for each listener of the list it resolved and no other, each has entered
\* its listener's callback exactly once (a once-listener's wrapped callback
\* at most once, and then some call has fired it) and has ended
\* (C12_Invoked).
C12_Wait ==
  \A t \in Threads :
    Wait(t) => \A p \in TasksOf(t) : pr[p].pc = "dead"

C12_Invoked ==
  \A t \in Threads :
    Waited(t) =>
      /\ \A i \in 1..Len(pr[P(t)].lns) :
           /\ pr[<<t, i>>].pc = "dead"
           /\ pr[<<t, i>>].event = pr[P(t)].event
           /\ pr[<<t, i>>].lns = <<pr[P(t)].lns[i]>>
           /\ IF pr[P(t)].lns[i].once
              THEN /\ pr[<<t, i>>].fired \in {<<>>, <<pr[P(t)].lns[i].Index>>}
                   /\ pr[P(t)].lns[i].Index \in emitted
              ELSE pr[<<t, i>>].fired = <<pr[P(t)].lns[i].Index>>
      /\ \A i \in (Len(pr[P(t)].lns) + 1)..MaxTasks : pr[<<t, i>>].pc = "idle"

C12_WaitAfterAll == [][C12_Wait]_vars /\ []C12_Invoked

C12_Witness ==
  /\ Waited("t1")
  /\ Len(pr[T1].lns) = 2
  /\ \A i \in 1..2 :
       pr[<<"t1", i>>].ret = "ok" /\ pr[<<"t1", i>>].fired = <<pr[T1].lns[i].Index>>

\* C13: under fair scheduling, a caller that holds the handle of EmitAsync
\* eventually returns from Wait, whatever the number of resolved listeners
\* and however their callbacks end.
C13_WaitReturns ==
  \A t \in Threads : (pr[P(t)].pc = "handle") ~> Waited(t)

C13_Witness ==
  /\ Waited("t1")
  /\ Len(pr[T1].lns) = 2
  /\ \A p \in TasksOf("t1") : pr[p].ret = "panic"

\* ------------------------------------------------------------ snapshots
T2 == P("t2")
SeqSet(s) == {s[x] : x \in DOMAIN s}

\* The number of listeners of its list whose Callback process p has entered.
Entered(p) ==
  IF pr[p].pc \in {"call", "once_off", "once_pub"} THEN pr[p].i - 1 ELSE pr[p].i

\* C14: Emit and EmitAsync take the listener list of the event from the
\* snapshot that is published at that step (C14_Load); a published snapshot
\* is the whole authoritative mapping of the step that publishes it, never
\* a part of a mutation (C14_Whole); and the callbacks a call enters are
\* those of the loaded list, in its order, a once-listener that another
\* call fired being passed over, whatever is published meanwhile
\* (C14_Follows).
C14_Load ==
  \A t \in Threads, e \in Events :
    (pr[P(t)].pc = "idle" /\ pr'[P(t)].event = e
       /\ (Emit(t, e) \/ EmitAsync(t, e))) =>
      /\ pr'[P(t)].lns = ListenersOf(evtv, e)
      /\ \A i \in 1..Len(pr'[P(t)].lns) :
           pr'[P(t)].op = "EmitAsync" => pr'[<<t, i>>].lns = <<pr'[P(t)].lns[i]>>

C14_Whole ==
  evtv' # evtv =>
    /\ EventsOf(evtv') = DOMAIN evtm'
    /\ \A e \in Events : ListenersOf(evtv', e) = Registered(evtm', e)

C14_Follows ==
  \A p \in Procs :
    pr[p].op \in {"Emit", "emitAsync"} =>
      /\ pr[p].fired =
           IdxSeq(SelectSeq(SubSeq(pr[p].lns, 1, Entered(p)),
                            LAMBDA x : (~x.once) \/ x.Index \in SeqSet(pr[p].fired)))
      /\ Cardinality(SeqSet(pr[p].fired)) = Len(pr[p].fired)

C14_OneSnapshot == [][C14_Load /\ C14_Whole]_vars /\ []C14_Follows

\* A second thread is running the callbacks of a list that is no longer the
\* registered one, while the first holds the write lock inside On or Off.
C14_Witness ==
  /\ lock = T1 /\ pr[T1].pc \in {"on_pub", "off_pub"}
  /\ pr[T2].op = "Emit" /\ pr[T2].pc = "body" /\ pr[T2].i = 2
  /\ pr[T2].lns # Registered(evtm, pr[T2].event)
  /\ pr[T2].lns = Listeners(pr[T2].event)

\* ------------------------------------------------------------ visibility
\* Thread u has returned from On/Once and its registration is still the one
\* of its (event, name); thread u has returned from Off(e, n) and (e, n) has
\* not been registered again.
OnReturned(u) ==
  /\ pr[P(u)].pc = "done" /\ pr[P(u)].op \in {"On", "Once"} /\ pr[P(u)].ret = "ok"
  /\ Has(evtm, pr[P(u)].event) /\ Has(evtm[pr[P(u)].event], pr[P(u)].name)
  /\ evtm[pr[P(u)].event][pr[P(u)].name] = pr[P(u)].il

OffReturned(u) ==
  /\ pr[P(u)].pc = "done" /\ pr[P(u)].op = "Off"
  /\ pr[P(u)].event # Empty /\ pr[P(u)].name # Empty
  /\ ~(Has(evtm, pr[P(u)].event) /\ Has(evtm[pr[P(u)].event], pr[P(u)].name))

\* C15: once On(e, n) has returned, Events() holds e and Listeners(e) the
\* registration, and once Off(e, n) has returned Listeners(e) holds no
\* listener named n (C15_Visible: Events and Listeners read the published
\* snapshot); an Emit or EmitAsync of e that starts then resolves the
\* registration, respectively no listener named n (C15_Read).
C15_Visible ==
  \A u \in Threads :
    /\ OnReturned(u) =>
         /\ pr[P(u)].event \in CurEvents
         /\ pr[P(u)].il \in SeqSet(Listeners(pr[P(u)].event))
    /\ OffReturned(u) =>
         pr[P(u)].name \notin SeqNames(Listeners(pr[P(u)].event))

C15_Read ==
  \A t, u \in Threads, e \in Events :
    (t # u /\ pr[P(u)].event = e /\ pr[P(t)].pc = "idle" /\ pr'[P(t)].event = e
       /\ (Emit(t, e) \/ EmitAsync(t, e))) =>
      /\ OnReturned(u) => pr[P(u)].il \in SeqSet(pr'[P(t)].lns)
      /\ OffReturned(u) => pr[P(u)].name \notin SeqNames(pr'[P(t)].lns)

C15_MutationVisible == [][C15_Read]_vars /\ []C15_Visible

C15_Witness ==
  /\ OnReturned("t1")
  /\ pr[T2].op = "Emit" /\ pr[T2].pc = "done" /\ pr[T2].ret = "ok"
  /\ pr[T1].il.Index \in SeqSet(pr[T2].fired)

\* ------------------------------------------------------------ nested calls
FR == P(Frame)
\* The process whose callback is making a call on the emitter.
Nesting(p) == pr[p].pc = "nested"

\* C16: the write lock is only ever held by a process that is inside On or
\* Off between Lock and Unlock, never by one that runs a callback, waits for
\* a call its callback made, or waits for the lock (C16_LockHolder): so the
\* lock that a call made by a callback waits for is never held by that
\* callback's own caller; and under fair scheduling every call that a
\* callback makes (On, Once, Off, Emit, EmitAsync and Wait) returns
\* (C16_Completes).
C16_LockHolder ==
  /\ lock # NoProc => pr[lock].pc \in {"on_pub", "off_pub", "once_pub"}
  /\ \A p \in Procs : (Nesting(p) \/ pr[p].pc = "body") => lock # p

C16_Completes == (pr[FR].pc \notin {"idle", "done"}) ~> (pr[FR].pc = "done")

C16_ReentrantCalls == []C16_LockHolder /\ C16_Completes

\* A call of On made by the wrapped callback of a once-listener has returned.
C16_Witness ==
  /\ \E p \in Procs : Nesting(p) /\ Cur(p).once
  /\ pr[FR].pc = "done" /\ pr[FR].op = "On" /\ pr[FR].ret = "ok"
  /\ pr[FR].il \in SeqSet(Listeners(pr[FR].event))

\* C17: the list that Emit(e) loaded stays the list of that call whatever
\* its callbacks register or remove (C17_Keeps); when the call has returned,
\* the callbacks it entered are those of the listeners of that list, in its
\* order, each plain listener's once and a once-listener's unless another
\* call fired it, and of no listener registered meanwhile (C17_Invokes).
C17_Keeps ==
  \A p \in Procs :
    (pr[p].op = "Emit" /\ pr'[p].op = "Emit") => pr'[p].lns = pr[p].lns

C17_Invokes ==
  \A t \in Callers :
    (pr[P(t)].op = "Emit" /\ pr[P(t)].pc = "done" /\ pr[P(t)].ret = "ok") =>
      /\ \A j \in DOMAIN pr[P(t)].lns :
           \/ pr[P(t)].lns[j].Index \in SeqSet(pr[P(t)].fired)
           \/ pr[P(t)].lns[j].once /\ pr[P(t)].lns[j].Index \in emitted
      /\ pr[P(t)].fired =
           IdxSeq(SelectSeq(pr[P(t)].lns,
                            LAMBDA x : x.Index \in SeqSet(pr[P(t)].fired)))

C17_NestedMutationLater == [][C17_Keeps]_vars /\ []C17_Invokes

\* Emit has entered the callback of a plain listener that a callback of the
\* same call had removed.
C17_Witness ==
  /\ pr[T1].op = "Emit" /\ pr[T1].pc = "done" /\ pr[T1].ret = "ok"
  /\ Len(pr[T1].lns) = 2
  /\ ~pr[T1].lns[2].once
  /\ pr[T1].fired = IdxSeq(pr[T1].lns)
  /\ pr[T1].lns[2].name \notin SeqNames(Listeners(pr[T1].event))
  /\ pr[T1].lns[1].name \in SeqNames(Listeners(pr[T1].event))

\* ------------------------------------------------------------ Emit and the lock
\* C18: an Emit call that has not returned can always take its next step,
\* whoever holds the write lock: it never waits for the lock.
C18_EmitNeverWaits ==
  \A t \in Threads :
    (pr[P(t)].op = "Emit" /\ pr[P(t)].pc # "done") => ENABLED Run(P(t))

\* ------------------------------------------------------------ matcher
\* C20: the reference matcher answers true for the pattern "*" and any
\* name, for a pattern "*" \o s and any name x \o s, for a pattern s \o "*"
\* and any name s \o x; and for a pattern that neither starts nor ends with
\* "*" it answers true exactly when the name is the pattern.
Matched == matchCall.ret = "true"
Plain(p) == p = "" \/ (SubSeq(p, 1, 1) # "*" /\ SubSeq(p, Len(p), Len(p)) # "*")

C20_ReferenceMatcher ==
  matchCall.ret # "none" =>
    LET p == matchCall.matchedEvent
        e == matchCall.emittedEvent
    IN /\ p = "*" => Matched
       /\ \A s \in Strings(MaxLen) :
            (p = "*" \o s /\ \E x \in Strings(MaxLen) : e = x \o s) => Matched
       /\ \A s \in Strings(MaxLen) :
            (p = s \o "*" /\ \E x \in Strings(MaxLen) : e = s \o x) => Matched
       /\ Plain(p) => (Matched <=> p = e)

C20_Witness ==
  /\ matchCall = [matchedEvent |-> "*.a", emittedEvent |-> "a.a", ret |-> "true"]

\* ------------------------------------------------------------ missing targets
\* (e, n) names no registered listener: e is not registered, or n is not
\* registered under e.
Missing(e, n) ==
  /\ e # Empty
  /\ \/ ~Has(evtm, e)
     \/ n # Empty /\ ~Has(evtm[e], n)

\* No registered event is the emitted event e, respectively matches it.
NoneMatches(e) ==
  IF matchEvent = "nil" THEN ~Has(evtm, e)
  ELSE \A k \in DOMAIN evtm : ~MatchEvent(k, e)

\* C19: Off(e, n) of a missing (e, n) changes neither evtm nor the published
\* snapshot when it takes the lock and looks (C19_Off) nor in the rest of
\* the call, which stores nothing and returns normally (C19_OffPublish); Emit of an
\* event that no registered event matches returns at once without entering
\* a callback (C19_Emit); EmitAsync of such an event starts no goroutine and
\* leaves the counter of the handle at zero, so that Wait returns at once
\* (C19_EmitAsync, C19_Wait).
C19_Off ==
  \A t \in Threads, e \in PatternEvents, n \in CommonNames \cup {Empty} :
    (pr[P(t)].pc = "idle" /\ pr'[P(t)].op = "Off" /\ Missing(e, n) /\ Off(t, e, n)) =>
      /\ UNCHANGED <<evtm, evtv>>
      /\ pr'[P(t)].pub = "none"

C19_OffPublish ==
  \A t \in Threads :
    (pr[P(t)].pc = "off_pub" /\ pr[P(t)].pub = "none" /\ OffPublish(t)) =>
      /\ UNCHANGED <<evtm, evtv>>
      /\ pr'[P(t)].pc = "done" /\ pr'[P(t)].ret = "ok"

C19_Emit ==
  \A t \in Threads, e \in PatternEvents \cup EmittedEvents :
    (pr[P(t)].pc = "idle" /\ pr'[P(t)].op = "Emit" /\ NoneMatches(e) /\ Emit(t, e)) =>
      /\ pr'[P(t)].pc = "done" /\ pr'[P(t)].ret = "ok"
      /\ pr'[P(t)].fired = <<>> /\ pr'[P(t)].lns = <<>>
      /\ \A q \in Procs \ {P(t)} : pr'[q] = pr[q]

C19_EmitAsync ==
  \A t \in Threads, e \in EmittedEvents :
    (pr[P(t)].pc = "idle" /\ pr'[P(t)].op = "EmitAsync" /\ NoneMatches(e)
       /\ EmitAsync(t, e)) =>
      /\ pr'[P(t)].pc = "handle" /\ pr'[P(t)].wg = 0 /\ pr'[P(t)].lns = <<>>
      /\ \A q \in Procs \ {P(t)} : pr'[q] = pr[q]

C19_Wait ==
  \A t \in Threads :
    (pr[P(t)].pc = "handle" /\ pr[P(t)].lns = <<>>) => ENABLED Wait(t)

C19_MissingTargetNoOp ==
  [][C19_Off /\ C19_OffPublish /\ C19_Emit /\ C19_EmitAsync]_vars /\ []C19_Wait

\* Wait has returned for an EmitAsync of a name that none of the registered
\* patterns matches.
C19_Witness ==
  /\ matchEvent = "ref"
  /\ Waited("t1") /\ pr[T1].ret = "ok"
  /\ pr[T1].lns = <<>>
  /\ evtm # EmptyMap
  /\ NoneMatches(pr[T1].event)
  /\ \A p \in Tasks : pr[p].pc = "idle"

\* ------------------------------------------------------------ pattern mode
\* The listeners of the registered events that match the emitted name x (of
\* the event x itself when the emitter has no matcher).
MatchingListeners(x) ==
  IF matchEvent = "nil"
  THEN IF Has(evtm, x) THEN Values(evtm[x]) ELSE {}
  ELSE UNION {Values(evtm[k]) : k \in {k \in DOMAIN evtm : MatchEvent(k, x)}}

\* C21: Emit(x) loads each listener of each registered event that matches x
\* once, and no other listener, and hands the callbacks the emitted name x
\* (C21_Load); the name stays the same through the call (C21_Name); when the
\* call has returned, the callback of every loaded listener has been
\* entered exactly once, a once-listener's wrapped callback at most once
\* and then it has been fired (C21_Invoked).
C21_Load ==
  \A t \in Threads, x \in PatternEvents \cup EmittedEvents :
    (pr[P(t)].pc = "idle" /\ pr'[P(t)].op = "Emit" /\ Emit(t, x)) =>
      /\ pr'[P(t)].event = x
      /\ SeqSet(pr'[P(t)].lns) = MatchingListeners(x)
      /\ Len(pr'[P(t)].lns) = Cardinality(MatchingListeners(x))

C21_Name ==
  \A p \in Procs :
    (pr[p].op = "Emit" /\ pr'[p].op = "Emit") => pr'[p].event = pr[p].event

C21_Invoked ==
  \A t \in Threads :
    (pr[P(t)].op = "Emit" /\ pr[P(t)].pc = "done" /\ pr[P(t)].ret = "ok") =>
      /\ \A j \in DOMAIN pr[P(t)].lns :
           LET k == pr[P(t)].lns[j].Index
               n == Cardinality({x \in DOMAIN pr[P(t)].fired : pr[P(t)].fired[x] = k})
           IN IF pr[P(t)].lns[j].once THEN n <= 1 /\ k \in emitted ELSE n = 1
      /\ SeqSet(pr[P(t)].fired) \subseteq SeqIdx(pr[P(t)].lns)

C21_PatternEmit == [][C21_Load /\ C21_Name]_vars /\ []C21_Invoked

\* Emit("a.a") has run the listeners of the two patterns that match it.
C21_Witness ==
  /\ matchEvent = "ref"
  /\ pr[T1].op = "Emit" /\ pr[T1].pc = "done" /\ pr[T1].ret = "ok"
  /\ pr[T1].event = "a.a"
  /\ DOMAIN evtm = {"a.*", "*.a"}
  /\ Len(pr[T1].lns) = 2 /\ Len(pr[T1].fired) = 2

\* C22: the callbacks that Emit(x) enters are entered in ascending order of
\* sequence number, also when the listeners are registered under different
\* patterns.
C22_PatternOrder ==
  \A t \in Threads :
    pr[P(t)].op = "Emit" =>
      \A j, k \in DOMAIN pr[P(t)].fired :
        j < k => pr[P(t)].fired[j] < pr[P(t)].fired[k]

\* C23: when an Emit of an emitter with a matcher has returned, a
\* once-listener it fired is registered under no event, and an event of
\* which it was the only listener is not in Events().
C23_OnceOffPattern ==
  \A t \in Threads :
    (matchEvent # "nil" /\ pr[P(t)].op = "Emit" /\ pr[P(t)].pc = "done") =>
      \A j \in DOMAIN pr[P(t)].lns :
        (pr[P(t)].lns[j].once /\ pr[P(t)].lns[j].Index \in SeqSet(pr[P(t)].fired)) =>
          \A e \in CurEvents : pr[P(t)].lns[j].Index \notin SeqIdx(Listeners(e))

\* ------------------------------------------------------------ package events
\* C24: RemoveListener(evt, l...) leaves for evt the listeners it had
\* without the given ones, the others in the order they had.
C24_Removed ==
  \A t \in Threads :
    (pr[P(t)].pc = "w_lock" /\ pr[P(t)].op = "RemoveListener"
       /\ RemoveListenerLocked(t)) =>
      ListenersAt(evtListeners', pr[P(t)].event) =
        SelectSeq(ListenersAt(evtListeners, pr[P(t)].event),
                  LAMBDA x : x.listener \notin SeqSet(pr[P(t)].lns))

C24_RemoveKeepsOrder == [][C24_Removed]_vars

\* The k-th onceListener is among the listeners of the event it was
\* registered for.
Listed(k) ==
  \E i \in DOMAIN ListenersAt(evtListeners, wrappers[k].evtname) :
    ListenersAt(evtListeners, wrappers[k].evtname)[i].once = k

\* C25: the callback of the listener that a onceListener wraps is entered at
\* most once, whatever Emit and EmitAsync calls run (C25_AtMostOnce), and
\* under fair scheduling a onceListener whose callback has been entered is
\* eventually not among the listeners of its event (C25_Removed).
C25_AtMostOnce == \A k \in DOMAIN wrappers : wrappers[k].ran <= 1

C25_Removed ==
  \A k \in 1..MaxOnce :
    (k \in DOMAIN wrappers /\ wrappers[k].ran = 1)
      ~> (k \in DOMAIN wrappers /\ ~Listed(k))

C25_LegacyOnce == []C25_AtMostOnce /\ C25_Removed

\* C26: the locked part of RemoveListener(evt) without listeners removes evt
\* and leaves every other event as it was (C26_Step); once the call has
\* returned, and until its caller makes another call, IsListened(evt) is
\* false, ListenerCount(evt) is 0 and Events() does not hold evt
\* (C26_Returned).
C26_Step ==
  \A t \in Threads :
    (pr[P(t)].pc = "w_lock" /\ pr[P(t)].op = "RemoveAllListeners"
       /\ RemoveAllListeners(t)) =>
      /\ DOMAIN evtListeners' = DOMAIN evtListeners \ {pr[P(t)].event}
      /\ \A e \in DOMAIN evtListeners' : evtListeners'[e] = evtListeners[e]

C26_Returned ==
  \A t \in Threads :
    (pr[P(t)].pc = "done" /\ pr[P(t)].op = "RemoveAllListeners") =>
      /\ ~IsListened(pr[P(t)].event)
      /\ ListenerCount(pr[P(t)].event) = 0
      /\ pr[P(t)].event \notin LegacyEventsOf

C26_RemoveWholeEvent == [][C26_Step]_vars /\ []C26_Returned

\* ------------------------------------------------------------ C27
\* The snapshot ev lists exactly what the mapping m holds: the same events
\* and, for each of them, the same listeners (name, Index, callback), each
\* of them once.
SameRegistry(ev, m) ==
  /\ EventsOf(ev) = DOMAIN m
  /\ \A e \in DOMAIN m :
       /\ SeqSet(ListenersOf(ev, e)) = Values(m[e])
       /\ Len(ListenersOf(ev, e)) = Cardinality(DOMAIN m[e])
       /\ \A n \in DOMAIN m[e] : m[e][n].name = n

\* C27: whenever no On, Once or Off holds the write lock, the published
\* snapshot contains exactly the events and the listeners of evtm, whatever
\* calls of On, Once and Off (with an empty event, an empty name, or both
\* given) have run and however they interleave with emissions.
C27_SnapshotMatchesRegistry == lock = NoProc => SameRegistry(evtv, evtm)

\* t2's Emit has run the Off of a once-listener and is in its callback;
\* meanwhile t1 has registered a listener again.
C27_Witness ==
  /\ lock = NoProc
  /\ pr[T2].op = "Emit" /\ pr[T2].pc = "body" /\ Cur(T2).once
  /\ pr[T1].op = "On" /\ pr[T1].pc = "done" /\ pr[T1].ret = "ok"
  /\ Has(evtm, "e1") /\ ~Has(evtm["e1"], Empty)
  /\ Cur(T2).Index \notin SeqIdx(Listeners("e1"))

\* ------------------------------------------------------------ C28
\* The elements of the slices of the published snapshot, per event.
Published == [e \in DOMAIN evtp |-> arrays[evtp[e]]]

\* The slice the running Emit of p ranges over still has the elements, in
\* the order, it had when the call loaded it, and the callbacks the call
\* has entered are those of its first elements, one after the other.
Ranging(p) ==
  pr[p].op = "Emit" /\ pr[p].pc \in {"call", "body"}
    => /\ arrays[ref[p]] = pr[p].lns
       /\ pr[p].fired = SubSeq(IdxSeq(pr[p].lns), 1, Len(pr[p].fired))

\* The slice Listeners returned to p is on an array of its own, and holds
\* what the call put there and what p assigned since.
Returned(p) ==
  pr[p].op = "Listeners" /\ ref[p] # 0
    => /\ ref[p] \notin Values(evtp)
       /\ arrays[ref[p]] = pr[p].lns

\* C28: a snapshot is not modified after it is published.  The slices of
\* the published snapshot hold the listeners that were stored, the slice a
\* reader got by Emit or Listeners keeps its elements and their order
\* whatever On and Off do afterwards, and the slice Listeners returns shares
\* no array with the registry, so that an assignment to it changes nothing
\* there.
C28_SnapshotImmutable ==
  /\ Published = evtv.events
  /\ \A p \in Procs : Ranging(p) /\ Returned(p)

\* The Emit of t2 is between the two listeners it loaded while the
\* registry has moved on: the published list of the event differs from the
\* one t2 ranges over.
C28_Witness ==
  /\ pr[P("t2")].op = "Emit" /\ pr[P("t2")].pc = "call" /\ pr[P("t2")].i = 2
  /\ pr[P("t1")].op \in {"On", "Off"} /\ pr[P("t1")].pc = "done"
  /\ ListenersOf(evtv, "e1") # pr[P("t2")].lns
  /\ ElemsOf(SliceOf("e1")) # arrays[ref[P("t2")]]

\* ------------------------------------------------------------ C29
\* The On that finds its name registered for the event publishes the list
\* of the event without the old listener of that name, the others in the
\* order they had, and the new listener, with its new Index, behind them.
C29_Replace ==
  (OnPublish("t1") /\ pr[T1].pub = "replace") =>
    ListenersOf(evtv', pr[T1].event)
      = Append(Without(ListenersOf(evtv, pr[T1].event), pr[T1].name), pr[T1].il)

\* The Emit that has returned has entered the callbacks of the list that
\* was published when it was called, from the first to the last.
C29_Emit ==
  \A e \in Events :
    Emit("t1", e) => pr'[T1].lns = ListenersOf(evtv, e)

C29_Entered ==
  (pr[T1].op = "Emit" /\ pr[T1].pc = "done" /\ pr[T1].ret = "ok") =>
    /\ pr[T1].fired = IdxSeq(pr[T1].lns)
    /\ \A i, j \in DOMAIN pr[T1].fired : i < j => pr[T1].fired[i] < pr[T1].fired[j]

\* C29: registering a name again gives it a new sequence number.  With one
\* caller, the listener registered again moves behind every listener the
\* event had before, and an Emit then enters its callback after theirs:
\* after On(e, a), On(e, b), On(e, a) it is b, then a.
C29_ReRegisterMovesLast == [][C29_Replace /\ C29_Emit]_vars /\ []C29_Entered

\* On(e1, ln1), On(e1, ln2), On(e1, ln1), then an Emit(e1) that has entered
\* the callback of ln2 and then that of ln1.
C29_Witness ==
  /\ pr[T1].op = "Emit" /\ pr[T1].event = "e1"
  /\ pr[T1].pc = "done" /\ pr[T1].ret = "ok"
  /\ Len(pr[T1].lns) = 2
  /\ pr[T1].lns[1].name = "ln2" /\ pr[T1].lns[1].Index = 2
  /\ pr[T1].lns[2].name = "ln1" /\ pr[T1].lns[2].Index = 3
  /\ pr[T1].fired = <<2, 3>>

\* ------------------------------------------------------------ C30
\* The calls of the emitter that read a snapshot.
Emitting(q) == pr[q].op \in {"Emit", "EmitAsync", "emitAsync"}

\* The step that enters the wrapped callback of a once-listener is the end
\* of its Off: the lock is released, and neither evtm nor the published
\* snapshot has a listener of that name for the event.
C30_Entry ==
  \A p \in Procs :
    OncePublish(p) =>
      /\ lock' = NoProc
      /\ ~(Has(evtm', pr[p].event) /\ Has(evtm'[pr[p].event], Cur(p).name))
      /\ Cur(p).name \notin SeqNames(ListenersOf(evtv', pr[p].event))

\* While the wrapped callback of a once-listener runs, Listeners(e) does
\* not have that listener, and no Emit or EmitAsync made from inside the
\* callback has loaded it.
C30_Inside ==
  \A p \in Procs :
    (pr[p].pc \in {"body", "nested"} /\ Cur(p).once) =>
      /\ Cur(p).Index \notin SeqIdx(Listeners(pr[p].event))
      /\ Nesting(p) =>
           \A q \in Procs :
             (q[1] = Frame /\ Emitting(q)) => Cur(p).Index \notin SeqIdx(pr[q].lns)

\* C30: without a matcher, the deregistration of a once-listener (e, n) is
\* complete when its wrapped callback is entered: Listeners(e) evaluated
\* inside the callback does not contain n, and an Emit(e) made from inside
\* the callback does not invoke n again.
C30_OnceOffBeforeCallback == [][C30_Entry]_vars /\ []C30_Inside

\* The wrapped callback of a once-listener of t1's Emit has made an
\* Emit of the same event, which has returned without a listener to call.
C30_Witness ==
  /\ pr[T1].op = "Emit" /\ Nesting(T1) /\ Cur(T1).once
  /\ pr[FR].op = "Emit" /\ pr[FR].event = pr[T1].event
  /\ pr[FR].pc = "done" /\ pr[FR].ret = "ok" /\ pr[FR].fired = <<>>
  /\ onceRan[Cur(T1).Index] = 1

\* ------------------------------------------------------------ C31
\* Off("", n) takes the lock and leaves evtm empty, whatever n is and
\* whatever was registered.
C31_Off ==
  \A t \in Threads, n \in Names \cup {Empty} :
    Off(t, Empty, n) => evtm' = EmptyMap /\ pr'[P(t)].pub = "empty"

\* The store that ends Off("", n) publishes a snapshot without events.
C31_OffPublish ==
  \A t \in Threads :
    (OffPublish(t) /\ pr[P(t)].event = Empty) =>
      /\ EventsOf(evtv') = {}
      /\ evtv' = EmptyManager

\* Once Off("", n) has returned, Events() is empty and no event has a
\* listener, for n empty or not.
C31_Returned ==
  (pr[T1].op = "Off" /\ pr[T1].pc = "done" /\ pr[T1].event = Empty) =>
    /\ CurEvents = {}
    /\ evtm = EmptyMap
    /\ \A e \in Events : Listeners(e) = <<>>

\* C31: Off with an empty event clears all the listeners of all the events
\* whatever listenerName is: after Off("", n), n not empty, Events() is
\* empty, as it is after Off("", "").
C31_OffEmptyEventClearsAll ==
  [][C31_Off /\ C31_OffPublish]_vars /\ []C31_Returned

\* Off("", "ln1") has emptied evtm and is about to publish: the snapshot
\* still lists both events, one of them with a listener of another name.
C31_Witness ==
  /\ pr[T1].op = "Off" /\ pr[T1].pc = "off_pub"
  /\ pr[T1].event = Empty /\ pr[T1].name = "ln1"
  /\ evtm = EmptyMap
  /\ CurEvents = Events
  /\ \E e \in Events : "ln2" \in SeqNames(Listeners(e))

\* ------------------------------------------------------------ C32
\* The Off that a firing once-listener makes leaves a listener that was
\* registered under its event and name after it, by another On, in evtm.
C32_OnceOff ==
  \A p \in Procs :
    (/\ OnceOff(p)
     /\ Has(evtm, pr[p].event) /\ Has(evtm[pr[p].event], Cur(p).name)
     /\ evtm[pr[p].event][Cur(p).name].Index # Cur(p).Index)
      => evtm' = evtm

\* C32: the self-deregistration of a once-listener removes only its own
\* registration: a listener registered under the same event and name
\* after an Emit loaded the once-listener, and before it fires, is still
\* registered after the firing.
C32_OnceOffOnlyOwn == [][C32_OnceOff]_vars

\* ------------------------------------------------------------ C33
\* The place of the listener with Index k in the list s (0: not there).
PlaceOf(s, k) == IF k \in SeqIdx(s) THEN CHOOSE i \in DOMAIN s : s[i].Index = k ELSE 0

\* From one published snapshot to the next, a listener that the event did
\* not have comes behind every listener that it had and still has.
C33_Grows ==
  \A e \in RaceEvents :
    LET old == ListenersOf(evtv, e)
        new == ListenersOf(evtv', e)
    IN  \A x \in SeqIdx(old) \cap SeqIdx(new), y \in SeqIdx(new) \ SeqIdx(old) :
          PlaceOf(new, x) < PlaceOf(new, y)

\* C33: under concurrent On calls on one event the listener order of the
\* event only grows at its end: a listener that a later snapshot lists and
\* an earlier one did not comes after the listeners both list.
C33_OrderGrowsAtEnd == [][C33_Grows]_vars

\* ------------------------------------------------------------ C34
\* The goroutine whose listener panicked has logged the line that names
\* the listener as the listener and the emitted event as the event.
C34_Logged ==
  \A p \in Tasks :
    (pr[p].op = "emitAsync" /\ pr[p].pc = "dead" /\ pr[p].ret = "panic") =>
      pr[p].log = "EventEmitter: listener '" \o Cur(p).name
                    \o "' panics on event '" \o pr[p].event \o "'"

\* C34: when a listener panics during EmitAsync, the diagnostic that is
\* logged reports the name of the panicking listener as the listener and
\* the emitted event as the event.
C34_PanicDiagnostic == []C34_Logged

\* ------------------------------------------------------------ C35
\* The published manager with the matcher the emitter was built with.
WithMatcher(ev) == [ev EXCEPT !.matchEvent = matchEvent]

\* Every store made by updateEvents publishes the matcher of the emitter.
C35_Store ==
  \A t \in Threads :
    (OnPublish(t) \/ (OffPublish(t) /\ pr[P(t)].pub = "update")) =>
      evtv'.matchEvent = matchEvent

\* Whatever has been stored, a snapshot with events has the matcher of the
\* emitter, and an Emit or EmitAsync of x resolves the lists it would
\* resolve with that matcher.
C35_Resolves ==
  /\ evtv.events # EmptyMap => evtv.matchEvent = matchEvent
  /\ \A x \in PatternEvents \cup EmittedEvents :
       Resolved(evtv, x) = Resolved(WithMatcher(evtv), x)

\* C35: an emitter built by NewCommon(match) resolves listeners with match
\* over its whole life: the snapshot stored by a full clear has no matcher
\* and no events, and the first On after it stores the matcher again, so
\* that Emit(x) invokes the listeners of every pattern that matches x.
C35_MatcherKept == [][C35_Store]_vars /\ []C35_Resolves

\* A listener was registered and published, a full clear has stored the
\* manager without matcher, and the On of a pattern that follows has put
\* its listener into evtm and is about to store the next snapshot.
C35_Witness ==
  /\ matchEvent = "ref"
  /\ evtv = EmptyManager
  /\ pr[T1].op = "On" /\ pr[T1].pc = "on_pub" /\ pr[T1].event = "a.*"
  /\ pr[T1].il.Index = 2
  /\ DOMAIN evtm = {"a.*"}
  /\ Resolved(WithMatcher(updateEvents(evtm, matchEvent,
                                       CHOOSE f \in IterOrders(evtm) : TRUE)), "a.a")
       = {<<pr[T1].il>>}

\* ------------------------------------------------------------ C36
\* C36: package events, in every reachable state each event that Events()
\* and IsListened report has at least one listener: RemoveListener(evt, l)
\* leaves no event with an empty list, neither when it removes the last
\* listener of evt nor when evt was never registered.
C36_NoEmptyEvent ==
  \A evt \in LegacyEvents : IsListened(evt) => ListenerCount(evt) >= 1

\* ------------------------------------------------------------ C37
\* The listener that an element of a list calls: itself, or the one Once
\* wrapped.
Underlying(ls) == [i \in DOMAIN ls |-> ls[i].listener]

\* C37: package events, after any sequence of On/AddListener, Once and
\* Off/RemoveListener no list of an event holds the same underlying
\* listener twice, registered directly or wrapped by Once, so that one Emit
\* calls each underlying listener at most once.
C37_NoDuplicateListener ==
  \A evt \in LegacyEventsOf :
    \A i, j \in DOMAIN evtListeners[evt] :
      (i # j /\ evtListeners[evt][i] # Nil /\ evtListeners[evt][j] # Nil)
        => Underlying(evtListeners[evt])[i] # Underlying(evtListeners[evt])[j]

====
